---- MODULE Spec2Model ----
(***************************************************************************)
(* Model of the ALNS engine of the "as" library (src/src/alns.h), of the   *)
(* acceptance criterion LinearRecordToRecordTravel                         *)
(* (src/src/alns_acceptance.h), of the loading of AlgorithmParams from a   *)
(* file and of the helpers rnd::roulette_wheel and rnd::sample             *)
(* (src/src/tsplib.h), containers::swap_erase (src/src/containers.h),      *)
(* combi::visit_subsets and combi::is_rotation (src/src/mwis.h).           *)
(*                                                                         *)
(* Scores, weights and thresholds are IEEE-754 binary32 values ("float"    *)
(* in the source).  A float is the pair <<m, e>> standing for m * 2^e:     *)
(* zero is <<0, 0>>, a normal float has 2^23 <= |m| < 2^24 and             *)
(* -149 <= e <= 104, a subnormal one has |m| < 2^23 and e = -149.  The     *)
(* infinities are <<+-2^24, 104>> and not-a-number is <<0, 128>>.          *)
(* Arithmetic rounds to nearest, ties to even, as the hardware does.  The  *)
(* sign of a zero is not represented.                                      *)
(***************************************************************************)
EXTENDS Integers, Sequences, FiniteSets, TLC

(***************************************************************************)
(* Bounds of the model.                                                    *)
(***************************************************************************)
\* Largest number of destroy methods registered.
MaxDestroy == 2
\* Largest number of repair methods registered (the repair pool runs the same
\* code as the destroy pool).
MaxRepair == 1
\* Largest number of passes of the loop of solve() since construction, a
\* write through an editable reference of the status counting as a pass.
MaxPasses == 3
\* Largest reading of the wall clock, in whole seconds.
MaxTime == 1
\* Largest solution cost.
MaxCost == 1
\* Number of distinct solutions of the same cost.
MaxTag == 1
\* Largest iterations_limit and time_limit of the acceptance criterion.
MaxLimit == 2
\* Largest length of a vector of weights handed to roulette_wheel on its own.
MaxWeights == 3
\* The uniform draw in [0, 1) takes the values k / 2^PivotBits.
PivotBits == 2
\* The longest vector handed to swap_erase, sample and is_rotation.
MaxLen == 3
\* The elements of those vectors are 1..MaxValue.
MaxValue == 3
\* The largest size handed to visit_subsets.
MaxSize == 4
\* Largest number of writes made through the editable references of the
\* status (by the visitor, or by the caller between two calls of solve()).
MaxEdits == 1

(***************************************************************************)
(* binary32 arithmetic.                                                    *)
(***************************************************************************)
Pow2(n) == 2 ^ n

Abs(n) == IF n < 0 THEN -n ELSE n

Sgn(n) == IF n < 0 THEN -1 ELSE IF n = 0 THEN 0 ELSE 1

RECURSIVE BitLenSmall(_)
BitLenSmall(n) == IF n = 0 THEN 0 ELSE 1 + BitLenSmall(n \div 2)

\* The number of bits of a natural number below 2^30.
BitLen(n) ==
    IF n < 8388608 THEN BitLenSmall(n)
    ELSE IF n < 16777216 THEN 24
    ELSE IF n < 33554432 THEN 25
    ELSE IF n < 67108864 THEN 26
    ELSE IF n < 134217728 THEN 27
    ELSE IF n < 268435456 THEN 28
    ELSE IF n < 536870912 THEN 29
    ELSE 30

\* 0.0f.  The two zeros have the significand 0; the exponent tells them
\* apart: 0 is written for +0.0f, -1 for -0.0f.
F32Zero == <<0, 0>>

F32NegZero == <<0, -1>>

\* The exponent of the lowest bit of a subnormal float and of the largest
\* finite floats.
MinExp == -149

MaxExp == 104

\* Infinity is written as the significand 2^24 at the largest exponent (2^128,
\* the value at which rounding overflows); not-a-number as F32NaN.
F32Inf == <<16777216, MaxExp>>

F32NaN == <<0, 128>>

IsNaN(a) == a = F32NaN

IsInf(a) == Abs(a[1]) = 16777216

IsZero(a) == a[1] = 0 /\ a[2] # 128

Signed(sign, a) == <<sign * a[1], a[2]>>

\* The sign bit of a float other than not-a-number, as -1 or 1.
SignOf(a) == IF a[1] < 0 THEN -1 ELSE IF a = F32NegZero THEN -1 ELSE 1

\* The zero of a sign.
ZeroOf(sign) == IF sign < 0 THEN F32NegZero ELSE F32Zero

\* The exponent of the lowest bit kept of a number of k bits whose lowest bit
\* has the exponent e: 24 bits are kept, fewer below 2^-126 (subnormal
\* results).
KeptExp(e, k) == IF e + k - 24 < MinExp THEN MinExp ELSE e + k - 24

\* n without its sh lowest bits (0 < sh), rounded to nearest, ties to even.
RoundShift(n, sh) ==
    LET q    == n \div Pow2(sh)
        r    == n % Pow2(sh)
        half == Pow2(sh - 1)
    IN IF r > half \/ (r = half /\ q % 2 = 1) THEN q + 1 ELSE q

\* The float sign * q * 2^te for a significand q <= 2^24 (2^24 when rounding
\* carried into a 25th bit); a result of 2^128 or more is an infinity, and
\* one that rounds to nothing is the zero of the sign.
Packed(sign, q, te) ==
    IF q = 0 THEN ZeroOf(sign)
    ELSE IF q = Pow2(24)
    THEN (IF te + 1 > MaxExp THEN Signed(sign, F32Inf)
          ELSE <<sign * Pow2(23), te + 1>>)
    ELSE IF te > MaxExp THEN Signed(sign, F32Inf)
    ELSE <<sign * q, te>>

\* sign * n * 2^e for n of k bits, brought to the exponent te = e + sh.
Rounded(sign, n, k, sh, te) ==
    IF sh <= 0 THEN Packed(sign, n * Pow2(-sh), te)
    ELSE IF sh > k THEN ZeroOf(sign)
    ELSE Packed(sign, RoundShift(n, sh), te)

NormAt(sign, n, e, k) == Rounded(sign, n, k, KeptExp(e, k) - e, KeptExp(e, k))

\* The float nearest to sign * n * 2^e, for a natural number n < 2^30 whose
\* lowest bit carries the "sticky" information of discarded lower bits: 24
\* bits are kept, fewer below 2^-126 (subnormal results), ties go to the even
\* significand, and a result of 2^128 or more is an infinity.
F32Norm(sign, n, e) ==
    IF n = 0 THEN F32Zero ELSE NormAt(sign, n, e, BitLen(n))

\* The float with the value of a small integer.
F32FromInt(n) == F32Norm(Sgn(n), Abs(n), 0)

\* -a: the sign bit is flipped, that of a zero as well.
F32Neg(a) ==
    IF a[1] # 0 THEN <<-a[1], a[2]>>
    ELSE IF a = F32Zero THEN F32NegZero
    ELSE IF a = F32NegZero THEN F32Zero
    ELSE a

\* The significand of a finite float other than zero brought to 24 bits (a
\* subnormal float has fewer), with the exponent that keeps the value.
Normalized(a) ==
    LET k == BitLen(Abs(a[1])) IN <<Abs(a[1]) * Pow2(24 - k), a[2] - (24 - k)>>

\* x * y for normalized x and y, with the sign given: the 48-bit product of
\* the significands is formed from 12-bit limbs and rounded once.
MulNormalized(sign, x, y) ==
    LET a1  == x[1] \div 4096
        b1  == x[1] % 4096
        a2  == y[1] \div 4096
        b2  == y[1] % 4096
        mid == a1 * b2 + a2 * b1
        low == b1 * b2 + (mid % 4096) * 4096
        lo  == low % Pow2(24)
        hi  == a1 * a2 + (mid \div 4096) + (low \div Pow2(24))
        n0  == hi * 8 + (lo \div Pow2(21))
        n   == IF lo % Pow2(21) # 0 /\ n0 % 2 = 0 THEN n0 + 1 ELSE n0
    IN F32Norm(sign, n, x[2] + y[2] + 21)

\* a * b.
F32Mul(a, b) ==
    IF IsNaN(a) \/ IsNaN(b) THEN F32NaN
    ELSE IF IsInf(a) \/ IsInf(b)
    THEN IF IsZero(a) \/ IsZero(b) THEN F32NaN
         ELSE Signed(SignOf(a) * SignOf(b), F32Inf)
    ELSE IF a[1] = 0 \/ b[1] = 0 THEN ZeroOf(SignOf(a) * SignOf(b))
    ELSE MulNormalized(Sgn(a[1]) * Sgn(b[1]), Normalized(a), Normalized(b))

\* a + b: the operand of smaller exponent is aligned with three extra bits
\* (guard, round, sticky) and the sum is rounded once.  Two zeros of one sign
\* add up to that zero; two zeros of different signs, and two numbers that
\* cancel, add up to +0.0f.
F32Add(a, b) ==
    IF IsNaN(a) \/ IsNaN(b) THEN F32NaN
    ELSE IF IsInf(a) THEN (IF IsInf(b) /\ b # a THEN F32NaN ELSE a)
    ELSE IF IsInf(b) THEN b
    ELSE IF a[1] = 0 THEN (IF b[1] = 0 /\ a # b THEN F32Zero ELSE b)
    ELSE IF b[1] = 0 THEN a
    ELSE LET big   == IF a[2] >= b[2] THEN a ELSE b
             small == IF a[2] >= b[2] THEN b ELSE a
             d     == big[2] - small[2]
             y0    == Abs(small[1]) * 8
             q     == IF d >= 28 THEN 0 ELSE y0 \div Pow2(d)
             st    == IF d >= 28 THEN TRUE ELSE y0 % Pow2(d) # 0
             ys    == IF st /\ q % 2 = 0 THEN q + 1 ELSE q
             total == big[1] * 8 + Sgn(small[1]) * ys
         IN F32Norm(Sgn(total), Abs(total), big[2] - 3)

F32Sub(a, b) == F32Add(a, F32Neg(b))

RECURSIVE DivBits(_, _, _, _)
\* k more bits of the quotient of the long division by d, from the quotient q
\* and the remainder r so far: the pair <<quotient, remainder>>.
DivBits(q, r, d, k) ==
    IF k = 0 THEN <<q, r>>
    ELSE IF 2 * r >= d THEN DivBits(2 * q + 1, 2 * r - d, d, k - 1)
         ELSE DivBits(2 * q, 2 * r, d, k - 1)

\* x / y for normalized x and y, with the sign given: 26 fractional bits of
\* the quotient of the significands and a sticky bit for the remainder,
\* rounded once.
DivNormalized(sign, x, y) ==
    LET qr == DivBits(x[1] \div y[1], x[1] % y[1], y[1], 26)
        n  == 2 * qr[1] + (IF qr[2] # 0 THEN 1 ELSE 0)
    IN F32Norm(sign, n, x[2] - y[2] - 27)

\* a / b.  The sign of the quotient is the product of the signs, those of
\* zeros and of infinities as well: a number other than zero divided by a
\* zero is the infinity of that sign, a zero divided by a zero is
\* not-a-number.
F32Div(a, b) ==
    IF IsNaN(a) \/ IsNaN(b) THEN F32NaN
    ELSE IF IsInf(a) THEN (IF IsInf(b) THEN F32NaN
                           ELSE Signed(SignOf(a) * SignOf(b), F32Inf))
    ELSE IF IsInf(b) THEN ZeroOf(SignOf(a) * SignOf(b))
    ELSE IF b[1] = 0 THEN (IF a[1] = 0 THEN F32NaN
                           ELSE Signed(SignOf(a) * SignOf(b), F32Inf))
    ELSE IF a[1] = 0 THEN ZeroOf(SignOf(a) * SignOf(b))
    ELSE DivNormalized(Sgn(a[1]) * Sgn(b[1]), Normalized(a), Normalized(b))

\* Comparisons: the rounded difference of two floats has the sign of the
\* exact difference; the two zeros are equal; a comparison with not-a-number
\* is false.
F32Lt(a, b) == ~IsNaN(a) /\ ~IsNaN(b) /\ a # b /\ F32Sub(a, b)[1] < 0

F32Le(a, b) ==
    /\ ~IsNaN(a)
    /\ ~IsNaN(b)
    /\ (a = b \/ F32Sub(a, b)[1] < 0 \/ (a[1] = 0 /\ b[1] = 0))

F32Ge(a, b) == F32Le(b, a)

F32Min(a, b) == IF F32Lt(b, a) THEN b ELSE a

F32Max(a, b) == IF F32Lt(a, b) THEN b ELSE a

F32One == <<8388608, -23>>

(***************************************************************************)
(* Solutions, parameters.                                                  *)
(***************************************************************************)
\* A solution is opaque to the engine but for its cost; the tag tells apart
\* distinct solutions of equal cost.
Solutions == [cost : 0..MaxCost, tag : 0..MaxTag]

cost(s) == s.cost

\* The initial solutions given to the constructor.
InitialSolutions == {[cost |-> MaxCost, tag |-> 0]}

\* AlgorithmParams(): score_decay 0.9f, multipliers 10.0f, 4.0f, 1.5f.
DefaultParams ==
    [score_decay              |-> <<15099494, -24>>,
     new_best_multiplier      |-> <<10485760, -20>>,
     new_improving_multiplier |-> <<8388608, -21>>,
     new_accepted_multiplier  |-> <<12582912, -23>>]

\* Parameters given by the caller: score_decay 0.001f, every multiplier 15.0f.
FastParams ==
    [score_decay              |-> <<8589935, -33>>,
     new_best_multiplier      |-> <<15728640, -20>>,
     new_improving_multiplier |-> <<15728640, -20>>,
     new_accepted_multiplier  |-> <<15728640, -20>>]

ParamChoices == {DefaultParams, FastParams}

(***************************************************************************)
(* std::uint32_t, the type of the iteration number (line 167).  Its values *)
(* are the words of 32 bits, and ++ takes 4294967295 to 0 (line 555).  The *)
(* integers TLC computes with are words of 32 bits read as signed, so a    *)
(* value of 2^31 or more is written as the negative integer of the same    *)
(* bits (its value less 2^32): 4294967295 is written -1, 2147483648 is     *)
(* written -2147483648, and a value below 2^31 is written as itself.       *)
(***************************************************************************)
\* std::numeric_limits<std::uint32_t>::max(), 4294967295.
UInt32Max == -1

\* ++n on a std::uint32_t: n + 1 modulo 2^32.
UInt32Inc(n) == IF n = 2147483647 THEN -2147483647 - 1 ELSE n + 1

\* a < b on std::uint32_t.
UInt32Less(a, b) == IF (a < 0) = (b < 0) THEN a < b ELSE b < 0

VARIABLES
    params,              \* ALNSSolver::params, AlgorithmStatus::params
    iteration_number,    \* AlgorithmStatus::iteration_number (a std::uint32_t)
    elapsed_time_sec,    \* AlgorithmStatus::elapsed_time_sec (whole seconds)
    destroy_methods,     \* AlgorithmStatus::destroy_methods (method identities)
    repair_methods,      \* AlgorithmStatus::repair_methods
    destroy_scores,      \* AlgorithmStatus::destroy_scores
    repair_scores,       \* AlgorithmStatus::repair_scores
    best_solution,       \* AlgorithmStatus::best_solution
    current_solution,    \* AlgorithmStatus::current_solution
    new_solution,        \* AlgorithmStatus::new_solution
    latest_destroy_id,   \* AlgorithmStatus::latest_destroy_id
    latest_repair_id,    \* AlgorithmStatus::latest_repair_id
    pc,                  \* position of the caller / of solve()
    start_time,          \* solve(): start_time
    now,                 \* the wall clock
    initial_solution,    \* the constructor's argument
    pre,                 \* the status as it was when the pass began (as the
                         \* last pass, or the caller writing to it since,
                         \* left it when none is under way)
    accepted,            \* what acceptance(status) returned in this pass
    visitor_result,      \* what the visitor returned last
    ncalls,              \* callbacks invoked in the pass under way
    npasses,             \* passes begun since construction (of a solver
                         \* that has run for long, the latest ones)
    ever_accepted,       \* acceptance(status) has returned true
    refs,                \* solve(): the references destroy and repair
    applied,             \* the methods invoked in this pass
    resets,              \* calls of reset_status since construction
    stop_at,             \* the iteration number at which the visitor stops
    visited,             \* <<n>>: the iteration number n the visitor was
                         \* invoked with last (<<>>: not invoked yet)
    call,                \* the latest call of a function returning a value:
                         \* its arguments and its result
    edits                \* number of writes made through the editable
                         \* references of the status since construction

status_vars == <<iteration_number, elapsed_time_sec, destroy_methods,
                 repair_methods, destroy_scores, repair_scores, best_solution,
                 current_solution, new_solution, latest_destroy_id,
                 latest_repair_id>>

vars == <<params, iteration_number, elapsed_time_sec, destroy_methods,
          repair_methods, destroy_scores, repair_scores, best_solution,
          current_solution, new_solution, latest_destroy_id, latest_repair_id,
          pc, start_time, now, initial_solution, pre, accepted,
          visitor_result, ncalls, npasses, ever_accepted, refs, applied,
          resets, stop_at, visited, call, edits>>

\* What the passes of solve() leave alone.
aux_vars == <<resets, stop_at, visited, call, edits>>

\* No function is being called on its own.
NoCall == [fn |-> "none"]

NoCalls == [destroy |-> 0, repair |-> 0, acceptance |-> 0, update |-> 0,
            visitor |-> 0]

NoMethods == [destroy |-> 0, repair |-> 0]

\* What a callback returning bool answered ("none": not invoked yet).
Answer(b) == IF b THEN "true" ELSE "false"

Snapshot == [best_solution    |-> best_solution,
             current_solution |-> current_solution,
             destroy_scores   |-> destroy_scores,
             repair_scores    |-> repair_scores,
             iteration_number |-> iteration_number,
             elapsed_time_sec |-> elapsed_time_sec]

(***************************************************************************)
(* rnd::roulette_wheel.                                                    *)
(***************************************************************************)
RECURSIVE Accumulate(_, _)
\* std::accumulate(weights.begin(), weights.end(), init), in float.
Accumulate(weights, init) ==
    IF weights = <<>> THEN init
    ELSE Accumulate(Tail(weights), F32Add(init, Head(weights)))

\* The values the canonical uniform draw in [0, 1) takes in the model.
UniformDraws == {F32Norm(1, k, -PivotBits) : k \in 0..(Pow2(PivotBits) - 1)}

\* dist(prng) for the canonical draw u: u * (sum - 0) + 0, sum being the
\* accumulated weights.
Pivot(weights, u) ==
    F32Add(F32Mul(u, Accumulate(weights, F32Zero)), F32Zero)

RECURSIVE RouletteScan_past_end(_, _, _, _)
\* The loop of roulette_wheel falling back on weights.size().
RouletteScan_past_end(weights, pivot, i, partial) ==
    IF i >= Len(weights) - 1 THEN Len(weights)
    ELSE LET p == F32Add(partial, weights[i + 1]) IN
         IF F32Ge(p, pivot) THEN i
         ELSE RouletteScan_past_end(weights, pivot, i + 1, p)

RECURSIVE RouletteScan(_, _, _, _)
\* The loop of roulette_wheel, from index i (0-based) with running sum partial.
RouletteScan(weights, pivot, i, partial) ==
    IF i >= Len(weights) - 1 THEN Len(weights) - 1
    ELSE LET p == F32Add(partial, weights[i + 1]) IN
         IF F32Ge(p, pivot) THEN i
         ELSE RouletteScan(weights, pivot, i + 1, p)

\* roulette_wheel(weights, prng), the generator yielding the canonical draw u.
roulette_wheel(weights, u) ==
    LET sum   == Accumulate(weights, F32Zero)
        pivot == F32Add(F32Mul(u, sum), F32Zero)
    IN RouletteScan(weights, pivot, 0, F32Zero)

(***************************************************************************)
(* AlgorithmStatus.                                                        *)
(***************************************************************************)
\* update_score with the method index ignored: the first score is updated.
update_score_first(method_id, multiplier, scores) ==
    LET decayed == F32Mul(scores[1], params.score_decay)
    IN [scores EXCEPT ![1] =
            F32Add(decayed,
                   F32Mul(F32Sub(F32FromInt(1), params.score_decay), multiplier))]

\* update_score with the weight of the multiplier negated: decay - 1.
update_score_negated(method_id, multiplier, scores) ==
    LET decayed == F32Mul(scores[method_id + 1], params.score_decay)
    IN [scores EXCEPT ![method_id + 1] =
            F32Add(decayed,
                   F32Mul(F32Sub(params.score_decay, F32FromInt(1)), multiplier))]

\* update_score with the reward subtracted instead of added.
update_score_sub(method_id, multiplier, scores) ==
    LET decayed == F32Mul(scores[method_id + 1], params.score_decay)
    IN [scores EXCEPT ![method_id + 1] =
            F32Sub(decayed,
                   F32Mul(F32Sub(F32FromInt(1), params.score_decay), multiplier))]

\* update_score(method_id, multiplier, scores): the new score vector.
update_score(method_id, multiplier, scores) ==
    LET decayed == F32Mul(scores[method_id + 1], params.score_decay)
    IN [scores EXCEPT ![method_id + 1] =
            F32Add(decayed,
                   F32Mul(F32Sub(F32FromInt(1), params.score_decay), multiplier))]

\* The state after construction: ALNSSolver(params, initial_solution).  The
\* two latest_*_id members are not initialised by the constructor.
Init ==
    /\ params \in ParamChoices
    /\ initial_solution \in InitialSolutions
    /\ iteration_number = 0
    /\ elapsed_time_sec = 0
    /\ destroy_methods = <<>>
    /\ repair_methods = <<>>
    /\ destroy_scores = <<>>
    /\ repair_scores = <<>>
    /\ best_solution = initial_solution
    /\ current_solution = initial_solution
    /\ new_solution = initial_solution
    /\ latest_destroy_id \in {0, MaxDestroy}
    /\ latest_repair_id \in {0, MaxRepair}
    /\ pc = "idle"
    /\ start_time = 0
    /\ now = 0
    /\ pre = Snapshot
    /\ accepted = "none"
    /\ visitor_result = "none"
    /\ ncalls = NoCalls
    /\ npasses = 0
    /\ ever_accepted = FALSE
    /\ refs = NoMethods
    /\ applied = NoMethods
    /\ resets = 0
    /\ visited = <<>>
    /\ stop_at = 0
    /\ call = NoCall
    /\ edits = 0

\* What methods[id] refers to for an index id that is not below
\* methods.size(): no element of the vector.
PastTheEnd == -1

\* get_roulette_destroy(), lines 319-322: the index is drawn over the scores
\* and recorded, and the vector of methods is subscripted with it.  The
\* index is below the number of scores; it is past the end of the vector
\* of methods when methods have been popped through the editable reference.
get_roulette_destroy(u) ==
    LET id == roulette_wheel(destroy_scores, u)
    IN [id |-> id,
        method |-> IF id < Len(destroy_methods)
                   THEN destroy_methods[id + 1] ELSE PastTheEnd]

\* get_roulette_repair(), lines 324-327.
get_roulette_repair(u) ==
    LET id == roulette_wheel(repair_scores, u)
    IN [id |-> id,
        method |-> IF id < Len(repair_methods)
                   THEN repair_methods[id + 1] ELSE PastTheEnd]

\* update_score_best(): both score vectors afterwards.
update_score_best ==
    [destroy_scores |-> update_score(latest_destroy_id, params.new_best_multiplier, destroy_scores),
     repair_scores  |-> update_score(latest_repair_id, params.new_best_multiplier, repair_scores)]

\* update_score_improving().
update_score_improving ==
    [destroy_scores |-> update_score(latest_destroy_id, params.new_improving_multiplier, destroy_scores),
     repair_scores  |-> update_score(latest_repair_id, params.new_improving_multiplier, repair_scores)]

\* update_score_accepted().
update_score_accepted ==
    [destroy_scores |-> update_score(latest_destroy_id, params.new_accepted_multiplier, destroy_scores),
     repair_scores  |-> update_score(latest_repair_id, params.new_accepted_multiplier, repair_scores)]

(***************************************************************************)
(* ALNSSolver.                                                             *)
(***************************************************************************)
\* The caller has control: solve() is not running, having not been called,
\* having returned ("idle") or having been left by an exception ("thrown").
Returned == pc \in {"idle", "thrown"}

\* The passes of the model are not used up: passes, the caller's operations
\* on the solver and the edits of the status are modelled while they are not.
PassesLeft == npasses + edits < MaxPasses

(***************************************************************************)
(* The editable references of the status: get_best_solution(),             *)
(* get_current_solution() and get_new_solution() return Solution&,         *)
(* get_destroy_methods() and get_repair_methods() return the vectors of    *)
(* methods by reference (lines 261-315).  The scores, the iteration number *)
(* and the elapsed time have constant getters only.  The visitor is handed *)
(* the status by reference (line 549) and the caller gets it from          *)
(* get_status() (lines 447-449).  An edit is one write through one of      *)
(* these references, or the visitor's call of a registration.  The writes *)
(* are counted (edits).                                                    *)
(***************************************************************************)
NoSolution == [cost |-> 0, tag |-> 0]

\* Nothing is written.
NoEdit == [member |-> "none", op |-> "none", value |-> NoSolution]

\* get_best_solution() = value, and the same for current and new: the best
\* solution is assigned a solution of the largest cost, the current and the
\* new solution one of the smallest cost.
SolutionEdits ==
    {[member |-> "best_solution", op |-> "assign",
      value |-> [cost |-> MaxCost, tag |-> MaxTag]],
     [member |-> "current_solution", op |-> "assign",
      value |-> [cost |-> 0, tag |-> MaxTag]],
     [member |-> "new_solution", op |-> "assign",
      value |-> [cost |-> 0, tag |-> MaxTag]]}

\* get_destroy_methods().pop_back() and get_repair_methods().pop_back().
MethodEdits ==
    [member : {"destroy_methods", "repair_methods"},
     op : {"pop_back"}, value : {NoSolution}]

\* The visitor's call of add_destroy_method or add_repair_method.
Registrations ==
    [member : {"add_destroy_method", "add_repair_method"},
     op : {"call"}, value : {NoSolution}]

\* What the caller does with the reference get_status() returns.
StatusEdits == SolutionEdits \cup MethodEdits

\* A vector of methods after the edit e, member naming the vector and
\* registration the function that registers into it.
EditedMethods(methods, member, registration, e) ==
    IF e.member = member
    THEN SubSeq(methods, 1, Len(methods) - 1)
    ELSE IF e.member = registration
    THEN Append(methods, Len(methods) + 1)
    ELSE methods

\* The assertion the registration e begins with (lines 498, 510) fails: the
\* methods and the scores of its pool are not as many, methods having been
\* popped through the editable reference.
AssertionFails(e) ==
    IF e.member = "add_destroy_method"
    THEN Len(destroy_methods) # Len(destroy_scores)
    ELSE IF e.member = "add_repair_method"
    THEN Len(repair_methods) # Len(repair_scores)
    ELSE FALSE

\* The edit e is within the model: a pass can follow, the writes are fewer
\* than MaxEdits so far, the vector popped is not empty (pop_back on an empty
\* vector is not modelled) and the pool registered into has fewer methods
\* than the model holds.
CanEdit(e) ==
    /\ e # NoEdit => PassesLeft
    /\ e \in StatusEdits => edits < MaxEdits
    /\ e.member = "destroy_methods" => destroy_methods # <<>>
    /\ e.member = "repair_methods" => repair_methods # <<>>
    /\ e.member = "add_destroy_method" => Len(destroy_methods) < MaxDestroy
    /\ e.member = "add_repair_method" => Len(repair_methods) < MaxRepair

\* The write e through an editable reference of the status (lines 261-315),
\* or the registration e (lines 497-502, 509-514) called by the visitor, its
\* assertion passed or compiled out: the method and the score 1.0f are
\* pushed back, each onto its vector as it is, and the number of methods
\* less one is returned (call.index).
EditStatus(e) ==
    /\ CanEdit(e)
    /\ best_solution' =
           IF e.member = "best_solution" THEN e.value ELSE best_solution
    /\ current_solution' =
           IF e.member = "current_solution" THEN e.value ELSE current_solution
    /\ new_solution' =
           IF e.member = "new_solution" THEN e.value ELSE new_solution
    /\ destroy_methods' =
           EditedMethods(destroy_methods, "destroy_methods", "add_destroy_method", e)
    /\ repair_methods' =
           EditedMethods(repair_methods, "repair_methods", "add_repair_method", e)
    /\ destroy_scores' =
           IF e.member = "add_destroy_method"
           THEN Append(destroy_scores, F32One) ELSE destroy_scores
    /\ repair_scores' =
           IF e.member = "add_repair_method"
           THEN Append(repair_scores, F32One) ELSE repair_scores
    /\ call' =
           IF e.member = "add_destroy_method"
           THEN [fn |-> e.member, index |-> Len(destroy_methods)]
           ELSE IF e.member = "add_repair_method"
           THEN [fn |-> e.member, index |-> Len(repair_methods)]
           ELSE call
    /\ edits' = IF e \in StatusEdits THEN edits + 1 ELSE edits

\* get_status(), lines 447-449: the caller, solve() not running, writes e
\* through the reference to the status.
get_status(e) ==
    /\ Returned
    /\ e # NoEdit
    /\ EditStatus(e)
    /\ pre' = [Snapshot EXCEPT !.best_solution = best_solution',
                               !.current_solution = current_solution']
    /\ UNCHANGED <<params, iteration_number, elapsed_time_sec,
                   latest_destroy_id, latest_repair_id, pc, start_time, now,
                   initial_solution, accepted, visitor_result, ncalls,
                   npasses, ever_accepted, refs, applied>>
    /\ UNCHANGED <<resets, stop_at, visited>>

\* add_destroy_method(method), lines 497-502: the method and the score 1.0f
\* are pushed back and destroy_methods.size() - 1u is returned (call.index).
\* Line 498 asserts that the methods and the scores are as many: when they
\* are not (a vector of methods has been written through its reference) and
\* assertions are compiled in, the process aborts; compiled out, nothing
\* looks at the sizes.
add_destroy_method(assertions) ==
    /\ Returned
    /\ PassesLeft
    /\ Len(destroy_methods) < MaxDestroy
    /\ IF assertions /\ Len(destroy_methods) # Len(destroy_scores)
       THEN /\ pc' = "aborted"
            /\ call' = NoCall
            /\ UNCHANGED <<destroy_methods, destroy_scores>>
       ELSE /\ destroy_methods' = Append(destroy_methods, Len(destroy_methods) + 1)
            /\ destroy_scores' = Append(destroy_scores, F32One)
            /\ call' = [fn |-> "add_destroy_method", index |-> Len(destroy_methods') - 1]
            /\ UNCHANGED pc
    /\ UNCHANGED <<params, iteration_number, elapsed_time_sec, repair_methods,
                   repair_scores, best_solution, current_solution, new_solution,
                   latest_destroy_id, latest_repair_id, start_time, now,
                   initial_solution, pre, accepted, visitor_result, ncalls,
                   npasses, ever_accepted, refs, applied>>
    /\ UNCHANGED <<resets, stop_at, visited, edits>>

\* add_repair_method(method), lines 509-514: the method and the score 1.0f
\* are pushed back and repair_methods.size() - 1u is returned (call.index);
\* the assertion of line 510 is that of line 498.
add_repair_method(assertions) ==
    /\ Returned
    /\ PassesLeft
    /\ Len(repair_methods) < MaxRepair
    /\ IF assertions /\ Len(repair_methods) # Len(repair_scores)
       THEN /\ pc' = "aborted"
            /\ call' = NoCall
            /\ UNCHANGED <<repair_methods, repair_scores>>
       ELSE /\ repair_methods' = Append(repair_methods, Len(repair_methods) + 1)
            /\ repair_scores' = Append(repair_scores, F32One)
            /\ call' = [fn |-> "add_repair_method", index |-> Len(repair_methods') - 1]
            /\ UNCHANGED pc
    /\ UNCHANGED <<params, iteration_number, elapsed_time_sec, destroy_methods,
                   destroy_scores, best_solution, current_solution, new_solution,
                   latest_destroy_id, latest_repair_id, start_time, now,
                   initial_solution, pre, accepted, visitor_result, ncalls,
                   npasses, ever_accepted, refs, applied>>
    /\ UNCHANGED <<resets, stop_at, visited, edits>>

\* set_params(params), lines 455-457: the parameters of the solver are
\* assigned; the status refers to them (line 157, line 422), so the score
\* updates that follow use the new ones.  It returns nothing.
set_params(p) ==
    /\ Returned
    /\ PassesLeft
    /\ params' = p
    /\ call' = NoCall
    /\ UNCHANGED <<status_vars, pc, start_time, now, initial_solution, pre,
                   accepted, visitor_result, ncalls, npasses, ever_accepted,
                   refs, applied>>
    /\ UNCHANGED <<resets, stop_at, visited, edits>>

\* reset_status(initial_solution), line 439: the status is assigned a newly
\* constructed AlgorithmStatus.  AlgorithmStatus has a reference member
\* (params, line 157) and so no assignment operator: the compiler rejects
\* the program that calls reset_status.  The call is on record (resets,
\* call), it yields no status and nothing runs after it (pc "ill_formed").
reset_status(s) ==
    /\ Returned
    /\ PassesLeft
    /\ pc' = "ill_formed"
    /\ resets' = resets + 1
    /\ call' = [fn |-> "reset_status", initial_solution |-> s]
    /\ UNCHANGED <<params, status_vars, start_time, now, initial_solution, pre,
                   accepted, visitor_result, ncalls, npasses, ever_accepted,
                   refs, applied>>
    /\ UNCHANGED <<stop_at, visited, edits>>

\* solve() starting the count of iterations anew in every call, the way it
\* starts the clock anew.
SolveBegin_recount ==
    /\ Returned
    /\ PassesLeft
    /\ start_time' = now
    /\ iteration_number' = 0
    /\ pc' = "roulette"
    /\ visitor_result' = "none"
    /\ UNCHANGED <<params, elapsed_time_sec, destroy_methods, repair_methods,
                   destroy_scores, repair_scores, best_solution,
                   current_solution, new_solution, latest_destroy_id,
                   latest_repair_id, now, initial_solution, pre, accepted,
                   ncalls, npasses, ever_accepted, refs, applied>>
    /\ call' = NoCall
    /\ UNCHANGED <<resets, stop_at, visited, edits>>

\* solve(), line 524: the clock is read and the loop is entered.  solve()
\* returns nothing: no returned value is on record from here on.
SolveBegin ==
    /\ Returned
    /\ PassesLeft
    /\ start_time' = now
    /\ pc' = "roulette"
    /\ visitor_result' = "none"
    /\ UNCHANGED <<params, status_vars, now, initial_solution, pre, accepted,
                   ncalls, npasses, ever_accepted, refs, applied>>
    /\ call' = NoCall
    /\ UNCHANGED <<resets, stop_at, visited, edits>>

\* solve(), lines 527-528 with an empty vector of scores.  With assertions
\* compiled in, roulette_wheel's assert(!weights.empty()) fails and the
\* process aborts.  With assertions compiled out (NDEBUG) the behaviour is
\* undefined: the loop bound weights.size() - 1u wraps around and weights[0],
\* an index out of the range of the empty vector, is read.  The destroy
\* method is drawn first (u: its draw), and its index recorded, when it is
\* the scores of the repair methods that are missing.
SolveAbort(u, assertions) ==
    /\ pc = "roulette"
    /\ IF destroy_scores = <<>> THEN TRUE ELSE repair_scores = <<>>
    /\ latest_destroy_id' = IF destroy_scores = <<>> THEN latest_destroy_id
                            ELSE roulette_wheel(destroy_scores, u)
    /\ pc' = IF assertions THEN "aborted" ELSE "undefined"
    /\ UNCHANGED <<params, iteration_number, elapsed_time_sec, destroy_methods,
                   repair_methods, destroy_scores, repair_scores, best_solution,
                   current_solution, new_solution, latest_repair_id, start_time,
                   now, initial_solution, pre, accepted, visitor_result, ncalls,
                   npasses, ever_accepted, refs, applied>>
    /\ UNCHANGED aux_vars

\* The methods drawn and the new solution left as the previous pass made it.
Roulette_no_copy(u1, u2) ==
    /\ pc = "roulette"
    /\ PassesLeft
    /\ destroy_scores # <<>>
    /\ repair_scores # <<>>
    /\ LET d == get_roulette_destroy(u1)
           r == get_roulette_repair(u2)
       IN /\ latest_destroy_id' = d.id
          /\ latest_repair_id' = r.id
          /\ refs' = [destroy |-> d.method, repair |-> r.method]
    /\ pre' = Snapshot
    /\ accepted' = "none"
    /\ applied' = NoMethods
    /\ ncalls' = NoCalls
    /\ npasses' = npasses + 1
    /\ pc' = "destroy"
    /\ UNCHANGED <<params, iteration_number, elapsed_time_sec, destroy_methods,
                   repair_methods, destroy_scores, repair_scores, best_solution,
                   current_solution, new_solution, start_time, now, initial_solution,
                   visitor_result, ever_accepted>>
    /\ UNCHANGED aux_vars

\* solve(), lines 527-530: both methods are drawn, the references destroy
\* and repair are formed (past the end of a vector of methods when the
\* index drawn over the scores is not below the number of methods) and the
\* current solution is copied into the new one.
Roulette(u1, u2) ==
    /\ pc = "roulette"
    /\ PassesLeft
    /\ destroy_scores # <<>>
    /\ repair_scores # <<>>
    /\ LET d == get_roulette_destroy(u1)
           r == get_roulette_repair(u2)
       IN /\ latest_destroy_id' = d.id
          /\ latest_repair_id' = r.id
          /\ refs' = [destroy |-> d.method, repair |-> r.method]
    /\ new_solution' = current_solution
    /\ pre' = Snapshot
    /\ accepted' = "none"
    /\ applied' = NoMethods
    /\ ncalls' = NoCalls
    /\ npasses' = npasses + 1
    /\ pc' = "destroy"
    /\ UNCHANGED <<params, iteration_number, elapsed_time_sec, destroy_methods,
                   repair_methods, destroy_scores, repair_scores, best_solution,
                   current_solution, start_time, now, initial_solution,
                   visitor_result, ever_accepted>>
    /\ UNCHANGED aux_vars

\* The destroy method applied to the current solution itself and not to a
\* copy of it.
Destroy_in_place(sol) ==
    /\ pc = "destroy"
    /\ refs.destroy # PastTheEnd
    /\ new_solution' = sol
    /\ current_solution' = sol
    /\ applied' = [applied EXCEPT !.destroy = refs.destroy]
    /\ ncalls' = [ncalls EXCEPT !.destroy = @ + 1]
    /\ pc' = "repair"
    /\ UNCHANGED <<params, iteration_number, elapsed_time_sec, destroy_methods,
                   repair_methods, destroy_scores, repair_scores, best_solution,
                   latest_destroy_id, latest_repair_id, start_time, now,
                   initial_solution, pre, accepted, visitor_result, npasses,
                   ever_accepted, refs>>
    /\ UNCHANGED aux_vars

\* solve(), line 531: the destroy method changes the new solution in place.
Destroy(sol) ==
    /\ pc = "destroy"
    /\ refs.destroy # PastTheEnd
    /\ new_solution' = sol
    /\ applied' = [applied EXCEPT !.destroy = refs.destroy]
    /\ ncalls' = [ncalls EXCEPT !.destroy = @ + 1]
    /\ pc' = "repair"
    /\ UNCHANGED <<params, iteration_number, elapsed_time_sec, destroy_methods,
                   repair_methods, destroy_scores, repair_scores, best_solution,
                   current_solution, latest_destroy_id, latest_repair_id,
                   start_time, now, initial_solution, pre, accepted,
                   visitor_result, npasses, ever_accepted, refs>>
    /\ UNCHANGED aux_vars

\* solve(), line 532: the repair method changes the new solution in place.
Repair(sol) ==
    /\ pc = "repair"
    /\ refs.repair # PastTheEnd
    /\ new_solution' = sol
    /\ applied' = [applied EXCEPT !.repair = refs.repair]
    /\ ncalls' = [ncalls EXCEPT !.repair = @ + 1]
    /\ pc' = "acceptance"
    /\ UNCHANGED <<params, iteration_number, elapsed_time_sec, destroy_methods,
                   repair_methods, destroy_scores, repair_scores, best_solution,
                   current_solution, latest_destroy_id, latest_repair_id,
                   start_time, now, initial_solution, pre, accepted,
                   visitor_result, npasses, ever_accepted, refs>>
    /\ UNCHANGED aux_vars

\* solve(), line 531, the reference destroy being past the end of the vector
\* of destroy methods: there is no method to call and the behaviour is
\* undefined, in every build (the subscript of line 321 is not checked).
\* The new solution is the copy line 530 made of the current one.
DestroyOutOfRange ==
    /\ pc = "destroy"
    /\ refs.destroy = PastTheEnd
    /\ pc' = "undefined"
    /\ UNCHANGED <<params, status_vars, start_time, now, initial_solution, pre,
                   accepted, visitor_result, ncalls, npasses, ever_accepted,
                   refs, applied>>
    /\ UNCHANGED aux_vars

\* solve(), line 532, the reference repair being past the end of the vector
\* of repair methods (line 326): the destroy method has run on the new
\* solution (line 531), there is no repair method to call and the behaviour
\* is undefined, in every build.
RepairOutOfRange ==
    /\ pc = "repair"
    /\ refs.repair = PastTheEnd
    /\ pc' = "undefined"
    /\ UNCHANGED <<params, status_vars, start_time, now, initial_solution, pre,
                   accepted, visitor_result, ncalls, npasses, ever_accepted,
                   refs, applied>>
    /\ UNCHANGED aux_vars

\* solve(), line 531: the destroy method throws, having changed the new
\* solution in part; nothing in solve() catches.
DestroyThrows(sol) ==
    /\ pc = "destroy"
    /\ refs.destroy # PastTheEnd
    /\ new_solution' = sol
    /\ applied' = [applied EXCEPT !.destroy = refs.destroy]
    /\ ncalls' = [ncalls EXCEPT !.destroy = @ + 1]
    /\ pc' = "thrown"
    /\ UNCHANGED <<params, iteration_number, elapsed_time_sec, destroy_methods,
                   repair_methods, destroy_scores, repair_scores, best_solution,
                   current_solution, latest_destroy_id, latest_repair_id,
                   start_time, now, initial_solution, pre, accepted,
                   visitor_result, npasses, ever_accepted, refs>>
    /\ UNCHANGED aux_vars

\* solve(), line 532: the repair method throws.
RepairThrows(sol) ==
    /\ pc = "repair"
    /\ refs.repair # PastTheEnd
    /\ new_solution' = sol
    /\ applied' = [applied EXCEPT !.repair = refs.repair]
    /\ ncalls' = [ncalls EXCEPT !.repair = @ + 1]
    /\ pc' = "thrown"
    /\ UNCHANGED <<params, iteration_number, elapsed_time_sec, destroy_methods,
                   repair_methods, destroy_scores, repair_scores, best_solution,
                   current_solution, latest_destroy_id, latest_repair_id,
                   start_time, now, initial_solution, pre, accepted,
                   visitor_result, npasses, ever_accepted, refs>>
    /\ UNCHANGED aux_vars

\* solve(), line 534: the acceptance criterion throws.
AcceptanceThrows ==
    /\ pc = "acceptance"
    /\ ncalls' = [ncalls EXCEPT !.acceptance = @ + 1]
    /\ pc' = "thrown"
    /\ UNCHANGED <<params, status_vars, start_time, now, initial_solution, pre,
                   accepted, visitor_result, npasses, ever_accepted, refs,
                   applied>>
    /\ UNCHANGED aux_vars

\* The best solution never replaced.
AcceptedBest_stale == best_solution

\* The best solution replaced by every new solution that costs less than the
\* current one.
AcceptedBest_on_improving ==
    IF cost(new_solution) < cost(current_solution)
    THEN new_solution
    ELSE best_solution

\* solve(), lines 535-537: the best solution after an accepted pass.
AcceptedBest ==
    IF /\ cost(new_solution) < cost(current_solution)
       /\ cost(new_solution) < cost(best_solution)
    THEN new_solution
    ELSE best_solution

\* The "improving" and "accepted" multipliers taken one for the other.
AcceptedScores_swapped ==
    IF cost(new_solution) < cost(current_solution)
    THEN IF cost(new_solution) < cost(best_solution)
         THEN update_score_best
         ELSE update_score_accepted
    ELSE update_score_improving

\* solve(), lines 535-544: the score vectors after an accepted pass.
AcceptedScores ==
    IF cost(new_solution) < cost(current_solution)
    THEN IF cost(new_solution) < cost(best_solution)
         THEN update_score_best
         ELSE update_score_improving
    ELSE update_score_accepted

\* The current solution kept when the new one costs the same.
AcceptedCurrent_unless_equal ==
    IF cost(new_solution) = cost(current_solution)
    THEN current_solution
    ELSE new_solution

\* solve(), line 546: the current solution after an accepted pass.
AcceptedCurrent == new_solution

\* The body of "if(acceptance(status))" run whatever the criterion answers.
Acceptance_always(b) ==
    /\ pc = "acceptance"
    /\ accepted' = Answer(b)
    /\ best_solution' = AcceptedBest
    /\ destroy_scores' = AcceptedScores.destroy_scores
    /\ repair_scores' = AcceptedScores.repair_scores
    /\ current_solution' = AcceptedCurrent
    /\ ever_accepted' = (ever_accepted \/ b)
    /\ ncalls' = [ncalls EXCEPT !.acceptance = @ + 1, !.update = @ + 1]
    /\ pc' = "visitor"
    /\ UNCHANGED <<params, iteration_number, elapsed_time_sec, destroy_methods,
                   repair_methods, new_solution, latest_destroy_id,
                   latest_repair_id, start_time, now, initial_solution, pre,
                   visitor_result, npasses, refs, applied>>
    /\ UNCHANGED aux_vars

\* solve(), lines 534-547: the acceptance criterion answers b.
Acceptance(b) ==
    /\ pc = "acceptance"
    /\ accepted' = Answer(b)
    /\ IF b
       THEN /\ best_solution' = AcceptedBest
            /\ destroy_scores' = AcceptedScores.destroy_scores
            /\ repair_scores' = AcceptedScores.repair_scores
            /\ current_solution' = AcceptedCurrent
            /\ ever_accepted' = TRUE
            /\ ncalls' = [ncalls EXCEPT !.acceptance = @ + 1, !.update = @ + 1]
       ELSE /\ UNCHANGED <<best_solution, current_solution, destroy_scores,
                           repair_scores, ever_accepted>>
            /\ ncalls' = [ncalls EXCEPT !.acceptance = @ + 1]
    /\ pc' = "visitor"
    /\ UNCHANGED <<params, iteration_number, elapsed_time_sec, destroy_methods,
                   repair_methods, new_solution, latest_destroy_id,
                   latest_repair_id, start_time, now, initial_solution, pre,
                   visitor_result, npasses, refs, applied>>
    /\ UNCHANGED aux_vars

\* visitor.on_iteration_end(status), line 549, seen from solve(): the
\* visitor is handed the status by reference and, holding the solver, may
\* call set_params (p: the parameters it leaves, params when it sets none);
\* e is what it writes through the status or registers (NoEdit: nothing).
\* It comes back from a registration whose assertion holds or is compiled
\* out (assertions: they are compiled in).
on_iteration_end(p, e, assertions) ==
    /\ assertions => ~AssertionFails(e)
    /\ EditStatus(e)
    /\ params' = p
    /\ ncalls' = [ncalls EXCEPT !.visitor = @ + 1]
    /\ visited' = <<iteration_number>>

\* The visitor's answer ignored: the loop goes on whatever it is.
Visitor_deaf(b, current_time, p, e, assertions) ==
    /\ pc = "visitor"
    /\ on_iteration_end(p, e, assertions)
    /\ visitor_result' = Answer(b)
    /\ now' = current_time
    /\ elapsed_time_sec' = current_time - start_time
    /\ iteration_number' = UInt32Inc(iteration_number)
    /\ pc' = "roulette"
    /\ pre' = [best_solution    |-> best_solution',
               current_solution |-> current_solution',
               destroy_scores   |-> destroy_scores',
               repair_scores    |-> repair_scores',
               iteration_number |-> iteration_number',
               elapsed_time_sec |-> elapsed_time_sec']
    /\ accepted' = "none"
    /\ refs' = NoMethods
    /\ applied' = NoMethods
    /\ UNCHANGED <<latest_destroy_id, latest_repair_id, start_time,
                   initial_solution, npasses, ever_accepted>>
    /\ UNCHANGED <<resets, stop_at>>

\* The iteration number incremented before the visitor's answer is looked at.
Visitor_counts_last(b, current_time, p, e, assertions) ==
    /\ pc = "visitor"
    /\ on_iteration_end(p, e, assertions)
    /\ visitor_result' = Answer(b)
    /\ iteration_number' = UInt32Inc(iteration_number)
    /\ IF b
       THEN /\ now' = current_time
            /\ elapsed_time_sec' = current_time - start_time
            /\ pc' = "roulette"
       ELSE /\ pc' = "idle"
            /\ UNCHANGED <<now, elapsed_time_sec>>
    /\ pre' = [best_solution    |-> best_solution',
               current_solution |-> current_solution',
               destroy_scores   |-> destroy_scores',
               repair_scores    |-> repair_scores',
               iteration_number |-> iteration_number',
               elapsed_time_sec |-> elapsed_time_sec']
    /\ accepted' = "none"
    /\ refs' = NoMethods
    /\ applied' = NoMethods
    /\ UNCHANGED <<latest_destroy_id, latest_repair_id, start_time,
                   initial_solution, npasses, ever_accepted>>
    /\ UNCHANGED <<resets, stop_at>>

\* solve(), lines 549-555: the visitor, having done to the solver and to the
\* status what p and e say, answers b; on TRUE the clock is read (at
\* current_time), the elapsed time and the iteration number are updated.
\* solve() itself writes nothing else: the solutions, the methods and the
\* scores are as the visitor leaves them.
Visitor(b, current_time, p, e, assertions) ==
    /\ pc = "visitor"
    /\ on_iteration_end(p, e, assertions)
    /\ visitor_result' = Answer(b)
    /\ IF b
       THEN /\ now' = current_time
            /\ elapsed_time_sec' = current_time - start_time
            /\ iteration_number' = UInt32Inc(iteration_number)
            /\ pc' = "roulette"
       ELSE /\ pc' = "idle"
            /\ UNCHANGED <<now, elapsed_time_sec, iteration_number>>
    /\ pre' = [best_solution    |-> best_solution',
               current_solution |-> current_solution',
               destroy_scores   |-> destroy_scores',
               repair_scores    |-> repair_scores',
               iteration_number |-> iteration_number',
               elapsed_time_sec |-> elapsed_time_sec']
    /\ accepted' = "none"
    /\ refs' = NoMethods
    /\ applied' = NoMethods
    /\ UNCHANGED <<latest_destroy_id, latest_repair_id, start_time,
                   initial_solution, npasses, ever_accepted>>
    /\ UNCHANGED <<resets, stop_at>>

\* solve(), line 549: the visitor throws, having done to the solver and to
\* the status what p and e say; nothing in solve() catches, the clock is not
\* read and the iteration number stays.  The pass is over: the status is as
\* the acceptance step and the visitor left it.
VisitorThrows(p, e, assertions) ==
    /\ pc = "visitor"
    /\ on_iteration_end(p, e, assertions)
    /\ pc' = "thrown"
    /\ pre' = [best_solution    |-> best_solution',
               current_solution |-> current_solution',
               destroy_scores   |-> destroy_scores',
               repair_scores    |-> repair_scores',
               iteration_number |-> iteration_number,
               elapsed_time_sec |-> elapsed_time_sec]
    /\ UNCHANGED <<iteration_number, elapsed_time_sec, latest_destroy_id,
                   latest_repair_id, start_time, now, initial_solution,
                   accepted, visitor_result, npasses, ever_accepted, refs,
                   applied>>
    /\ UNCHANGED <<resets, stop_at>>

\* solve(), line 549, the visitor calling the registration e while the
\* methods and the scores of the pool are not as many, assertions compiled
\* in: the assertion of line 498 or 510 fails and the process aborts inside
\* the visitor.  Nothing is registered, the visitor gives no answer and
\* solve() does not return.
VisitorAborts(e) ==
    /\ pc = "visitor"
    /\ e \in Registrations
    /\ CanEdit(e)
    /\ AssertionFails(e)
    /\ ncalls' = [ncalls EXCEPT !.visitor = @ + 1]
    /\ visited' = <<iteration_number>>
    /\ pc' = "aborted"
    /\ call' = NoCall
    /\ UNCHANGED <<params, status_vars, start_time, now, initial_solution, pre,
                   accepted, visitor_result, npasses, ever_accepted, refs,
                   applied>>
    /\ UNCHANGED <<resets, stop_at, edits>>

\* What the visitor does in one invocation: nothing, a call of set_params
\* or one edit; a registration is made in a build with assertions or in one
\* without (the other edits are the same in both).
VisitorDoes ==
    [params : ParamChoices, edit : {NoEdit}, assertions : {TRUE}]
        \cup [params : {params}, edit : StatusEdits, assertions : {TRUE}]
        \cup [params : {params}, edit : Registrations, assertions : BOOLEAN]

Next ==
    \/ \E assertions \in BOOLEAN : add_destroy_method(assertions)
    \/ \E assertions \in BOOLEAN : add_repair_method(assertions)
    \/ \E p \in ParamChoices : set_params(p)
    \/ \E e \in StatusEdits : get_status(e)
    \/ SolveBegin
    \/ \E u \in UniformDraws, assertions \in BOOLEAN : SolveAbort(u, assertions)
    \/ \E u1, u2 \in UniformDraws : Roulette(u1, u2)
    \/ \E sol \in Solutions : Destroy(sol)
    \/ \E sol \in Solutions : DestroyThrows(sol)
    \/ DestroyOutOfRange
    \/ \E sol \in Solutions : Repair(sol)
    \/ \E sol \in Solutions : RepairThrows(sol)
    \/ RepairOutOfRange
    \/ \E b \in BOOLEAN : Acceptance(b)
    \/ AcceptanceThrows
    \/ \E b \in BOOLEAN, current_time \in now..MaxTime, d \in VisitorDoes :
           Visitor(b, current_time, d.params, d.edit, d.assertions)
    \/ \E d \in VisitorDoes : VisitorThrows(d.params, d.edit, d.assertions)
    \/ \E e \in Registrations : VisitorAborts(e)

Spec == Init /\ [][Next]_vars

\* The solver with reset_status among the operations of its caller.
NextReset ==
    \/ Next
    \/ \E s \in Solutions : reset_status(s)

SpecReset == Init /\ [][NextReset]_vars

(***************************************************************************)
(* The solver after a long run as well.  The iteration number is changed   *)
(* by line 555 only, by one at a time, so the status holds 4294967295 only *)
(* after that many passes at whose end the visitor answered true.  The     *)
(* state LongRun is the solver then: as many destroy and repair methods    *)
(* as the model holds were registered, solve() was called, the criterion   *)
(* answered false in every pass (the scores are 1.0f and the current and   *)
(* the best solution are the initial one), the visitor answered true       *)
(* 4294967295 times, wrote nothing, and then answered false; solve() has   *)
(* returned.  Of the passes of that run, npasses holds MaxPasses - 1: one  *)
(* more pass is modelled.                                                  *)
(***************************************************************************)
LongRun ==
    /\ params \in ParamChoices
    /\ initial_solution \in InitialSolutions
    /\ iteration_number = UInt32Max
    /\ elapsed_time_sec = MaxTime
    /\ destroy_methods = [i \in 1..MaxDestroy |-> i]
    /\ repair_methods = [i \in 1..MaxRepair |-> i]
    /\ destroy_scores = [i \in 1..MaxDestroy |-> F32One]
    /\ repair_scores = [i \in 1..MaxRepair |-> F32One]
    /\ best_solution = initial_solution
    /\ current_solution = initial_solution
    /\ new_solution = initial_solution
    /\ latest_destroy_id = 0
    /\ latest_repair_id = 0
    /\ pc = "idle"
    /\ start_time = 0
    /\ now = MaxTime
    /\ pre = Snapshot
    /\ accepted = "none"
    /\ visitor_result = "false"
    /\ ncalls = [NoCalls EXCEPT !.destroy = 1, !.repair = 1,
                                !.acceptance = 1, !.visitor = 1]
    /\ npasses = MaxPasses - 1
    /\ ever_accepted = FALSE
    /\ refs = NoMethods
    /\ applied = NoMethods
    /\ resets = 0
    /\ visited = <<UInt32Max>>
    /\ stop_at = 0
    /\ call = NoCall
    /\ edits = 0

\* The solver as constructed, or after the long run.
InitLongRun == Init \/ LongRun

SpecLongRun == InitLongRun /\ [][Next]_vars

(***************************************************************************)
(* A run of solve() with callbacks of one kind: one destroy method and one *)
(* repair method whose combined effect lowers the cost of the current      *)
(* solution by exactly 1, an acceptance criterion that always answers      *)
(* true and a visitor that answers false when it is handed the iteration   *)
(* number stop_at and calls nothing; solve() is called once.  Every action *)
(* is the action of the engine with the outcome of its callback fixed.     *)
(***************************************************************************)
\* The cost of the initial solution of the scenario.
ScenarioCost == MaxPasses

InitScenario ==
    /\ params \in ParamChoices
    /\ initial_solution = [cost |-> ScenarioCost, tag |-> 0]
    /\ iteration_number = 0
    /\ elapsed_time_sec = 0
    /\ destroy_methods = <<>>
    /\ repair_methods = <<>>
    /\ destroy_scores = <<>>
    /\ repair_scores = <<>>
    /\ best_solution = initial_solution
    /\ current_solution = initial_solution
    /\ new_solution = initial_solution
    /\ latest_destroy_id \in {0, MaxDestroy}
    /\ latest_repair_id \in {0, MaxRepair}
    /\ pc = "idle"
    /\ start_time = 0
    /\ now = 0
    /\ pre = Snapshot
    /\ accepted = "none"
    /\ visitor_result = "none"
    /\ ncalls = NoCalls
    /\ npasses = 0
    /\ ever_accepted = FALSE
    /\ refs = NoMethods
    /\ applied = NoMethods
    /\ resets = 0
    /\ visited = <<>>
    /\ stop_at \in 0..(MaxPasses - 1)
    /\ call = NoCall
    /\ edits = 0

\* solve(), line 531, with a destroy method that raises the cost (by 0 or 1).
ScenarioDestroy == \E d \in 0..1 : Destroy([new_solution EXCEPT !.cost = @ + d])

\* solve(), line 532, with a repair method that lowers the cost to 1 below the
\* cost of the solution the pass began with.
ScenarioRepair == Repair([new_solution EXCEPT !.cost = cost(current_solution) - 1])

\* solve(), lines 549-555, with a visitor that answers false at the iteration
\* number stop_at and leaves the parameters and the status alone.
ScenarioVisitor ==
    \E current_time \in now..MaxTime :
        Visitor(iteration_number # stop_at, current_time, params, NoEdit, TRUE)

NextScenario ==
    \/ destroy_methods = <<>> /\ add_destroy_method(TRUE)
    \/ repair_methods = <<>> /\ add_repair_method(TRUE)
    \/ npasses = 0 /\ destroy_methods # <<>> /\ repair_methods # <<>> /\ SolveBegin
    \/ \E u1, u2 \in UniformDraws : Roulette(u1, u2)
    \/ ScenarioDestroy
    \/ ScenarioRepair
    \/ Acceptance(TRUE)
    \/ ScenarioVisitor

SpecScenario == InitScenario /\ [][NextScenario]_vars

(***************************************************************************)
(* Properties.                                                             *)
(***************************************************************************)
\* The exponential moving average the score update is specified to compute.
Ema(score, multiplier) ==
    F32Add(F32Mul(score, params.score_decay),
           F32Mul(F32Sub(F32One, params.score_decay), multiplier))

\* The multiplier an accepted pass is specified to apply, from the costs of
\* the new solution and of the current and best solutions the pass began with.
SpecifiedMultiplier ==
    IF cost(new_solution) < cost(pre.current_solution)
    THEN IF cost(new_solution) < cost(pre.best_solution)
         THEN params.new_best_multiplier
         ELSE params.new_improving_multiplier
    ELSE params.new_accepted_multiplier

Multipliers == {params.new_best_multiplier, params.new_improving_multiplier,
                params.new_accepted_multiplier}

AllScores == {destroy_scores[i] : i \in DOMAIN destroy_scores}
                 \cup {repair_scores[i] : i \in DOMAIN repair_scores}

\* The acceptance criterion has answered TRUE and the visitor is about to be
\* invoked.
AcceptedPass == pc = "visitor" /\ accepted = "true"

\* The acceptance criterion has answered FALSE and the visitor is about to be
\* invoked.
RejectedPass == pc = "visitor" /\ accepted = "false"

\* C1 as claimed: from a freshly constructed status on, the best solution
\* never costs more than the current solution, whatever the methods produce
\* and whatever the acceptance criterion answers.
C1_BestNotWorseThanCurrent == cost(best_solution) <= cost(current_solution)

\* C1 as amended: as long as nothing has been written through the editable
\* references of the status, the best solution never costs more than the
\* current one; and whatever has been written, a step that writes nothing
\* through them never makes the best solution cost more than the current one
\* when it did not before.
C1_BestNotWorseUnlessWritten ==
    /\ [](edits = 0 => cost(best_solution) <= cost(current_solution))
    /\ [][(edits' = edits /\ cost(best_solution) <= cost(current_solution))
             => cost(best_solution') <= cost(current_solution')]_vars

\* A worse candidate was accepted after a new best had been found, nothing
\* having been written through the references: the best solution is strictly
\* better than the current one.
C1_Witness ==
    /\ AcceptedPass
    /\ edits = 0
    /\ npasses >= 2
    /\ cost(best_solution) < cost(current_solution)

\* C2: an accepted pass applies one multiplier to the scores of both selected
\* methods: new_best when the candidate beats current and best, new_improving
\* when it beats current only, new_accepted when it does not beat current.
C2_MultiplierChoice ==
    AcceptedPass =>
        /\ destroy_scores[latest_destroy_id + 1]
               = Ema(pre.destroy_scores[latest_destroy_id + 1], SpecifiedMultiplier)
        /\ repair_scores[latest_repair_id + 1]
               = Ema(pre.repair_scores[latest_repair_id + 1], SpecifiedMultiplier)

\* An accepted pass, under distinct multipliers, whose candidate beats the
\* current solution but not the best one.
C2_Witness ==
    /\ AcceptedPass
    /\ params = DefaultParams
    /\ cost(new_solution) < cost(pre.current_solution)
    /\ cost(new_solution) >= cost(pre.best_solution)

\* C3: when the visitor is invoked in an accepted pass, the current solution
\* is the candidate; the best solution is the candidate in the new-best case
\* and is what it was in the other two cases.
C3_AcceptedReplacesCurrent ==
    AcceptedPass =>
        /\ current_solution = new_solution
        /\ best_solution =
               IF /\ cost(new_solution) < cost(pre.current_solution)
                  /\ cost(new_solution) < cost(pre.best_solution)
               THEN new_solution
               ELSE pre.best_solution

\* An accepted candidate of the same cost as the current solution, and yet
\* another solution.
C3_Witness ==
    /\ AcceptedPass
    /\ cost(new_solution) = cost(pre.current_solution)
    /\ new_solution # pre.current_solution
    /\ current_solution = new_solution

\* C4 as claimed: a rejected pass leaves the current solution, the best
\* solution and every score as they were; as long as no candidate has been
\* accepted, current and best are the initial solution and every score is
\* 1.0.
C4_RejectedPassChangesNothing ==
    /\ RejectedPass =>
           /\ current_solution = pre.current_solution
           /\ best_solution = pre.best_solution
           /\ destroy_scores = pre.destroy_scores
           /\ repair_scores = pre.repair_scores
    /\ ~ever_accepted =>
           /\ current_solution = initial_solution
           /\ best_solution = initial_solution
           /\ \A sc \in AllScores : sc = F32One

\* C4 as amended: when the visitor is invoked in a rejected pass, the current
\* solution, the best solution and every score are as they were when the
\* pass began; as long as no candidate has been accepted every score is 1.0,
\* and current and best are the initial solution as long as, besides,
\* nothing has been written through the editable references of the status.
C4_RejectedPassChangesNothingUnlessWritten ==
    /\ RejectedPass =>
           /\ current_solution = pre.current_solution
           /\ best_solution = pre.best_solution
           /\ destroy_scores = pre.destroy_scores
           /\ repair_scores = pre.repair_scores
    /\ ~ever_accepted => \A sc \in AllScores : sc = F32One
    /\ (~ever_accepted /\ edits = 0) =>
           /\ current_solution = initial_solution
           /\ best_solution = initial_solution

\* The last of MaxPasses passes, all rejected and nothing written through the
\* references, its candidate differing from the current solution.
C4_Witness ==
    /\ RejectedPass
    /\ ~ever_accepted
    /\ edits = 0
    /\ npasses = MaxPasses
    /\ new_solution # current_solution

C6_UpdatesSelectedScoresOnly ==
    AcceptedPass =>
        /\ applied.destroy = destroy_methods[latest_destroy_id + 1]
        /\ applied.repair = repair_methods[latest_repair_id + 1]
        /\ \E m \in Multipliers :
               /\ destroy_scores = [pre.destroy_scores EXCEPT
                      ![latest_destroy_id + 1] = Ema(@, m)]
               /\ repair_scores = [pre.repair_scores EXCEPT
                      ![latest_repair_id + 1] = Ema(@, m)]

\* An accepted pass that used the second destroy method while the first one
\* has a score of its own.
C6_Witness ==
    /\ AcceptedPass
    /\ Len(destroy_scores) = 2
    /\ latest_destroy_id = 1
    /\ destroy_scores[1] # F32One
    /\ destroy_scores[2] # pre.destroy_scores[2]

ScoreRangeLow == F32Min(F32One, F32Min(params.new_best_multiplier,
                     F32Min(params.new_improving_multiplier,
                            params.new_accepted_multiplier)))

ScoreRangeHigh == F32Max(F32One, F32Max(params.new_best_multiplier,
                      F32Max(params.new_improving_multiplier,
                             params.new_accepted_multiplier)))

\* C7 as claimed: every score lies in the range from min(1.0, smallest
\* multiplier) to max(1.0, largest multiplier).
C7_ScoresWithinMultiplierRange ==
    \A sc \in AllScores : F32Le(ScoreRangeLow, sc) /\ F32Le(sc, ScoreRangeHigh)

\* C7 as amended: with score_decay in (0, 1) and positive multipliers, every
\* score is non-negative in every reachable state.
C7_ScoresNonNegative ==
    \A sc \in AllScores : F32Le(F32Zero, sc)

\* A score that has been updated and has left the range by rounding.
C7_Witness ==
    /\ ever_accepted
    /\ \E sc \in AllScores : F32Lt(ScoreRangeHigh, sc)

\* Multipliers the monotonicity of update_score is tried on: those of the
\* parameters, 1.0 and 0.75.
TrialMultipliers == Multipliers \cup {F32One, <<12582912, -24>>}

\* The score of the i-th destroy method after an update with multiplier m.
Updated(i, m) == update_score(i - 1, m, destroy_scores)[i]

\* C8: where update_score is called (the acceptance step), for the score of
\* any method and the score_decay of the parameters, a smaller multiplier
\* never yields a larger updated score.
C8_UpdateScoreMonotonic ==
    pc = "acceptance" =>
        \A i \in DOMAIN destroy_scores :
            LET upd == {<<m, Updated(i, m)>> : m \in TrialMultipliers}
            IN \A a, b \in upd : F32Le(a[1], b[1]) => F32Le(a[2], b[2])

\* update_score is about to be called on a score with a history for which
\* two multipliers give two different updated scores.
C8_Witness ==
    /\ pc = "acceptance"
    /\ ever_accepted
    /\ \E i \in DOMAIN destroy_scores : \E m1, m2 \in TrialMultipliers :
           /\ destroy_scores[i] # F32One
           /\ F32Lt(m1, m2)
           /\ F32Lt(Updated(i, m1), Updated(i, m2))

\* The visitor has not been invoked since the solver was constructed.
NeverVisited == visited = <<>>

\* The step that ends a pass whose visitor answers TRUE.
PassGoesOn == pc = "visitor" /\ pc' = "roulette" /\ visitor_result' = "true"

\* C9 as claimed: the iteration number starts at 0; a pass whose visitor
\* answers TRUE makes it larger, by exactly 1; nothing else changes it, and
\* it never decreases.
C9_IterationCounts ==
    /\ [](NeverVisited => iteration_number = 0)
    /\ [][/\ PassGoesOn =>
                 /\ UInt32Less(iteration_number, iteration_number')
                 /\ iteration_number' = UInt32Inc(iteration_number)
          /\ ~PassGoesOn => iteration_number' = iteration_number
          /\ ~UInt32Less(iteration_number', iteration_number)]_vars

\* C9 as amended: the iteration number starts at 0; a pass whose visitor
\* answers TRUE adds exactly 1 to it modulo 2^32, which makes it larger by 1
\* unless it is 4294967295, the largest value of its type, and makes it 0
\* then; nothing else changes it.
C9_IterationCountsModulo ==
    /\ [](NeverVisited => iteration_number = 0)
    /\ [][/\ PassGoesOn =>
                 /\ iteration_number' = UInt32Inc(iteration_number)
                 /\ IF iteration_number = UInt32Max
                    THEN iteration_number' = 0
                    ELSE UInt32Less(iteration_number, iteration_number')
          /\ ~PassGoesOn => iteration_number' = iteration_number]_vars

\* The pass at whose end the visitor was handed 4294967295 went on: the
\* iteration number is 0 again.
C9_Witness ==
    /\ pc = "roulette"
    /\ visitor_result = "true"
    /\ visited = <<UInt32Max>>
    /\ npasses = MaxPasses
    /\ iteration_number = 0

\* C10 as claimed: the elapsed time starts at 0 and never decreases, a
\* resumed run included.
C10_ElapsedTimeNonDecreasing ==
    /\ elapsed_time_sec = 0
    /\ [][elapsed_time_sec' >= elapsed_time_sec]_vars

(***************************************************************************)
(* rnd::roulette_wheel called on its own, on a vector of weights and a     *)
(* generator of the caller's.                                              *)
(***************************************************************************)
\* A solver constructed with the default parameters and left alone.
EngineAtRest ==
    /\ params = DefaultParams
    /\ initial_solution = [cost |-> MaxCost, tag |-> 0]
    /\ iteration_number = 0
    /\ elapsed_time_sec = 0
    /\ destroy_methods = <<>>
    /\ repair_methods = <<>>
    /\ destroy_scores = <<>>
    /\ repair_scores = <<>>
    /\ best_solution = initial_solution
    /\ current_solution = initial_solution
    /\ new_solution = initial_solution
    /\ latest_destroy_id = 0
    /\ latest_repair_id = 0
    /\ pc = "idle"
    /\ start_time = 0
    /\ now = 0
    /\ pre = Snapshot
    /\ accepted = "none"
    /\ visitor_result = "none"
    /\ ncalls = NoCalls
    /\ npasses = 0
    /\ ever_accepted = FALSE
    /\ refs = NoMethods
    /\ applied = NoMethods
    /\ resets = 0
    /\ visited = <<>>
    /\ stop_at = 0
    /\ edits = 0

engine_vars == <<params, status_vars, pc, start_time, now, initial_solution,
                 pre, accepted, visitor_result, ncalls, npasses, ever_accepted,
                 refs, applied, resets, stop_at, visited, edits>>

\* The weights of the vectors: 0.0f, 0.1f, 0.5f, 1.0f.
WeightValues == {F32Zero, <<13421773, -27>>, <<8388608, -24>>, F32One}

\* The non-empty vectors of non-negative weights.
WeightVectors == UNION {[1..n -> WeightValues] : n \in 1..MaxWeights}

\* The arguments are drawn; index -1: roulette_wheel has not returned yet.
InitRoulette ==
    /\ EngineAtRest
    /\ call \in [fn : {"roulette_wheel"}, weights : WeightVectors,
                  u : UniformDraws, index : {-1}]

\* roulette_wheel(weights, prng) returns.
RouletteWheelCall ==
    /\ call.fn = "roulette_wheel"
    /\ call.index = -1
    /\ call' = [call EXCEPT !.index = roulette_wheel(call.weights, call.u)]
    /\ UNCHANGED engine_vars

NextRoulette == RouletteWheelCall

SpecRoulette == InitRoulette /\ [][NextRoulette]_vars

(***************************************************************************)
(* LinearRecordToRecordTravel::operator() (src/src/alns_acceptance.h)      *)
(* called on its own.  The criterion and what it reads of the status are   *)
(* the fields of the call; costs are floats, as those of test_alns.cpp.    *)
(***************************************************************************)
\* (float) of iterations_limit - iteration_number, a subtraction of size_t:
\* past the limit it wraps around to 2^64 - d, which rounds to 2^64 for the
\* small d of the model.
SizeDifference(limit, iteration) ==
    IF iteration <= limit THEN F32FromInt(limit - iteration)
    ELSE <<8388608, 41>>

\* Lines 83-87: the threshold.
Threshold(c) ==
    IF c.main_termination_criterion = "ITERATIONS"
    THEN F32Add(c.start_threshold,
                F32Mul(F32Sub(c.start_threshold, c.end_threshold),
                       SizeDifference(c.iterations_limit, c.iteration_number)))
    ELSE F32Add(c.start_threshold,
                F32Mul(F32Sub(c.start_threshold, c.end_threshold),
                       F32Sub(F32FromInt(c.time_limit),
                              F32FromInt(c.elapsed_time_sec))))

\* Lines 89-91: gap <= threshold.  With a new solution of cost 0 the
\* division yields -infinity for a negative difference, NaN for none and
\* +infinity for a positive one.
GapWithin(c, threshold) ==
    LET new_cost  == F32FromInt(c.new_cost)
        best_cost == F32FromInt(c.best_cost)
        diff      == F32Sub(new_cost, best_cost)
    IN F32Le(F32Div(diff, new_cost), threshold)

\* The thresholds of the model: 0.0f, 0.1f (the default start), 0.5f.
StartThresholds == {<<13421773, -27>>, <<8388608, -24>>}

EndThresholds == {F32Zero, <<13421773, -27>>}

\* The criteria and statuses the operator is called on.  The limit a
\* criterion does not use has its default value.
AcceptanceCalls ==
    [fn : {"LinearRecordToRecordTravel"},
     main_termination_criterion : {"ITERATIONS"},
     iterations_limit : 1..MaxLimit,
     time_limit : {3600},
     start_threshold : StartThresholds,
     end_threshold : EndThresholds,
     iteration_number : 0..(MaxLimit + 1),
     elapsed_time_sec : {0},
     new_cost : 0..(MaxCost + 1),
     best_cost : 0..(MaxCost + 1),
     threshold : {F32Zero},
     accepted : {"none"}]
    \cup
    [fn : {"LinearRecordToRecordTravel"},
     main_termination_criterion : {"TIME"},
     iterations_limit : {1000000},
     time_limit : 1..MaxLimit,
     start_threshold : StartThresholds,
     end_threshold : EndThresholds,
     iteration_number : {0},
     elapsed_time_sec : 0..(MaxLimit + 1),
     new_cost : 0..(MaxCost + 1),
     best_cost : 0..(MaxCost + 1),
     threshold : {F32Zero},
     accepted : {"none"}]

InitAcceptance ==
    /\ EngineAtRest
    /\ call \in AcceptanceCalls

\* LinearRecordToRecordTravel::operator()(status) returns.
AcceptanceCall ==
    /\ call.fn = "LinearRecordToRecordTravel"
    /\ call.accepted = "none"
    /\ call' = [call EXCEPT !.threshold = Threshold(call),
                            !.accepted = Answer(GapWithin(call, Threshold(call)))]
    /\ UNCHANGED engine_vars

NextAcceptance == AcceptanceCall

SpecAcceptance == InitAcceptance /\ [][NextAcceptance]_vars

(***************************************************************************)
(* containers::swap_erase (src/src/containers.h) called on its own.  An      *)
(* iterator is the number of elements before it: begin() is 0, end() is    *)
(* the size.  The condition is the set of the values it holds of.          *)
(***************************************************************************)
Values == 1..MaxValue

\* The vectors of at most MaxLen elements.
Vectors == UNION {[1..n -> Values] : n \in 0..MaxLen}

\* std::iter_swap(a, b) on the iterators a and b of vec.
iter_swap(vec, a, b) ==
    [vec EXCEPT ![a + 1] = vec[b + 1], ![b + 1] = vec[a + 1]]

RECURSIVE SwapEraseLoop_no_step_back(_, _, _, _)
\* The loop going on to the next element after a swap, without looking at
\* the element the swap brought in.
SwapEraseLoop_no_step_back(vec, it, last, condition) ==
    IF it < last
    THEN IF vec[it + 1] \in condition
         THEN SwapEraseLoop_no_step_back(iter_swap(vec, it, last - 1), it + 1,
                                         last - 1, condition)
         ELSE SwapEraseLoop_no_step_back(vec, it + 1, last, condition)
    ELSE [vec |-> vec, last |-> last]

RECURSIVE SwapEraseLoop(_, _, _, _)
\* Lines 159-163: for(it; it < last; ++it) if(condition(*it))
\* iter_swap(it--, --last).  The swap is of the elements at it and at the
\* decremented last; it is stepped back by "it--" and forth again by "++it",
\* so the element brought in is looked at next.  When it is begin(), the
\* stepped-back iterator is the position -1, one before the first element: it
\* is never dereferenced, and is begin() again after "++it".
SwapEraseLoop(vec, it, last, condition) ==
    IF it < last
    THEN IF vec[it + 1] \in condition
         THEN LET stepped_back == it - 1
              IN SwapEraseLoop(iter_swap(vec, it, last - 1), stepped_back + 1,
                               last - 1, condition)
         ELSE SwapEraseLoop(vec, it + 1, last, condition)
    ELSE [vec |-> vec, last |-> last]

\* swap_erase(vec, condition): the loop from begin() with last = end(), then
\* vec.erase(last, vec.end()) (line 165).
swap_erase(vec, condition) ==
    LET r == SwapEraseLoop(vec, 0, Len(vec), condition)
    IN SubSeq(r.vec, 1, r.last)

\* The vector and the condition are drawn; original keeps the vector as it
\* was handed over.
InitSwapErase ==
    /\ EngineAtRest
    /\ \E v \in Vectors, c \in SUBSET Values :
           call = [fn |-> "swap_erase", original |-> v, condition |-> c,
                   vec |-> v, returned |-> FALSE]

\* swap_erase(vec, condition) returns.
SwapEraseCall ==
    /\ call.fn = "swap_erase"
    /\ ~call.returned
    /\ call' = [call EXCEPT !.vec = swap_erase(call.vec, call.condition),
                            !.returned = TRUE]
    /\ UNCHANGED engine_vars

NextSwapErase == SwapEraseCall

SpecSwapErase == InitSwapErase /\ [][NextSwapErase]_vars

(***************************************************************************)
(* rnd::sample (random.h, in src/src/tsplib.h) called on its own.  The     *)
(* numbers the uniform distributions return are arguments of the call.     *)
(***************************************************************************)
\* how_many after lines 828-830: no more than the length of the container.
Capped(how_many, length) == IF how_many > length THEN length ELSE how_many

\* What the distributions of one call can return: the i-th of n_samples
\* draws is made by uniform_int_distribution(0, length - 1) with length
\* down from its first value by i - 1 (lines 837, 843).
DrawSequences(length, n_samples) ==
    {d \in [1..n_samples -> 0..(length - 1)] :
        \A i \in 1..n_samples : d[i] <= length - i}

RECURSIVE SampleLoop_copies(_, _, _, _, _)
\* The element drawn copied to the front instead of swapped with it.
SampleLoop_copies(container_copy, begin, length, n_samples, draws) ==
    IF n_samples = 0 THEN container_copy
    ELSE LET piv == begin + Head(draws)
         IN SampleLoop_copies([container_copy EXCEPT ![begin + 1] = container_copy[piv + 1]],
                              begin + 1, length - 1, n_samples - 1, Tail(draws))

RECURSIVE SampleLoop(_, _, _, _, _)
\* Lines 835-844: while(n_samples--) the element at begin is swapped with
\* the one dist(prng) places further, begin advances and length shrinks.
SampleLoop(container_copy, begin, length, n_samples, draws) ==
    IF n_samples = 0 THEN container_copy
    ELSE LET piv == begin + Head(draws)
         IN SampleLoop(iter_swap(container_copy, begin, piv),
                       begin + 1, length - 1, n_samples - 1, Tail(draws))

\* sample(container, how_many, prng): the first how_many elements of the
\* copy after the loop; the copy itself, empty, for an empty container.
sample(container, how_many, draws) ==
    LET length == Len(container)
    IN IF length = 0 THEN container
       ELSE SubSeq(SampleLoop(container, 0, length, Capped(how_many, length), draws),
                   1, Capped(how_many, length))

\* The container, how_many and the draws are drawn.
InitSample ==
    /\ EngineAtRest
    /\ \E v \in Vectors, h \in 0..(MaxLen + 1) :
         \E d \in DrawSequences(Len(v), Capped(h, Len(v))) :
           call = [fn |-> "sample", container |-> v, how_many |-> h,
                   draws |-> d, result |-> <<>>, returned |-> FALSE]

\* sample(container, how_many, prng) returns.
SampleCall ==
    /\ call.fn = "sample"
    /\ ~call.returned
    /\ call' = [call EXCEPT !.result = sample(call.container, call.how_many, call.draws),
                            !.returned = TRUE]
    /\ UNCHANGED engine_vars

NextSample == SampleCall

SpecSample == InitSample /\ [][NextSample]_vars

(***************************************************************************)
(* combi::visit_subsets (combinatorial.h, in src/src/mwis.h) called on its *)
(* own.  The recursion is a stack of frames, one per call of               *)
(* recursive_visit_subsets under way, the innermost last; a frame holds    *)
(* its pivot and how far it is: "entered", "first" (the first recursive    *)
(* call has returned) or "second" (the second one has).  A size_t is four  *)
(* limbs of 16 bits, the most significant first.                           *)
(***************************************************************************)
Limb == 65536

\* The size_t of a number below 2^16.
SizeT(n) == <<0, 0, 0, n>>

\* std::numeric_limits<std::size_t>::max().
SIZE_MAX == <<Limb - 1, Limb - 1, Limb - 1, Limb - 1>>

\* x - 1 in size_t, modulo 2^64: 0 - 1 is SIZE_MAX.
SizeDecrement(x) ==
    LET b4 == IF x[4] = 0 THEN 1 ELSE 0
        b3 == IF x[3] - b4 < 0 THEN 1 ELSE 0
        b2 == IF x[2] - b3 < 0 THEN 1 ELSE 0
    IN <<(x[1] - b2) % Limb, (x[2] - b3) % Limb, (x[3] - b4) % Limb,
         (x[4] - 1) % Limb>>

\* indicator[pivot] = b, for a pivot within the vector.
SetIndicator(indicator, pivot, b) == [indicator EXCEPT ![pivot[4] + 1] = b]

\* The innermost call of recursive_visit_subsets under way.
Top == call.stack[Len(call.stack)]

\* The stack with the innermost frame replaced by the frames fs.
Replaced(fs) == SubSeq(call.stack, 1, Len(call.stack) - 1) \o fs

\* The arguments are drawn; nothing has been called yet.
InitSubsets ==
    /\ EngineAtRest
    /\ \E n \in 0..MaxSize, b \in BOOLEAN :
           call = [fn |-> "visit_subsets", size |-> n, start_from_smaller |-> b,
                   indicator |-> <<>>, stack |-> <<>>, visited |-> <<>>,
                   at |-> "called"]

\* visit_subsets, lines 100-101: the indicator vector of size zeros and the
\* outermost call, with the pivot indicator.size() - 1.
VisitSubsetsEnter ==
    /\ call.fn = "visit_subsets"
    /\ call.at = "called"
    /\ call' = [call EXCEPT
                   !.indicator = [i \in 1..call.size |-> FALSE],
                   !.stack = <<[pivot |-> SizeDecrement(SizeT(call.size)),
                                at |-> "entered"]>>,
                   !.at = "running"]
    /\ UNCHANGED engine_vars

\* recursive_visit_subsets, lines 72-73: the pivot has gone below 0; the
\* visitor is invoked on the indicator vector and the call returns.
VisitSubsetsVisit ==
    /\ call.fn = "visit_subsets"
    /\ call.at = "running"
    /\ call.stack # <<>>
    /\ Top.at = "entered"
    /\ Top.pivot = SIZE_MAX
    /\ call' = [call EXCEPT !.visited = Append(@, call.indicator),
                            !.stack = Replaced(<<>>)]
    /\ UNCHANGED engine_vars

\* indicator[pivot] set to start_from_smaller before the first recursive call
\* already.
VisitSubsetsFirst_larger_first ==
    /\ call.fn = "visit_subsets"
    /\ call.at = "running"
    /\ call.stack # <<>>
    /\ Top.at = "entered"
    /\ Top.pivot # SIZE_MAX
    /\ call' = [call EXCEPT
                   !.indicator = SetIndicator(@, Top.pivot, call.start_from_smaller),
                   !.stack = Replaced(<<[Top EXCEPT !.at = "first"],
                                        [pivot |-> SizeDecrement(Top.pivot),
                                         at |-> "entered"]>>)]
    /\ UNCHANGED engine_vars

\* recursive_visit_subsets, lines 75-76: indicator[pivot] is set to
\* !start_from_smaller and the first recursive call is made.
VisitSubsetsFirst ==
    /\ call.fn = "visit_subsets"
    /\ call.at = "running"
    /\ call.stack # <<>>
    /\ Top.at = "entered"
    /\ Top.pivot # SIZE_MAX
    /\ call' = [call EXCEPT
                   !.indicator = SetIndicator(@, Top.pivot, ~call.start_from_smaller),
                   !.stack = Replaced(<<[Top EXCEPT !.at = "first"],
                                        [pivot |-> SizeDecrement(Top.pivot),
                                         at |-> "entered"]>>)]
    /\ UNCHANGED engine_vars

\* recursive_visit_subsets, lines 77-78: indicator[pivot] is set to
\* start_from_smaller and the second recursive call is made.
VisitSubsetsSecond ==
    /\ call.fn = "visit_subsets"
    /\ call.at = "running"
    /\ call.stack # <<>>
    /\ Top.at = "first"
    /\ call' = [call EXCEPT
                   !.indicator = SetIndicator(@, Top.pivot, call.start_from_smaller),
                   !.stack = Replaced(<<[Top EXCEPT !.at = "second"],
                                        [pivot |-> SizeDecrement(Top.pivot),
                                         at |-> "entered"]>>)]
    /\ UNCHANGED engine_vars

\* recursive_visit_subsets, lines 79-80: the call returns after its second
\* recursive call.
VisitSubsetsLeave ==
    /\ call.fn = "visit_subsets"
    /\ call.at = "running"
    /\ call.stack # <<>>
    /\ Top.at = "second"
    /\ call' = [call EXCEPT !.stack = Replaced(<<>>)]
    /\ UNCHANGED engine_vars

\* visit_subsets, line 102: the outermost call has returned.
VisitSubsetsReturn ==
    /\ call.fn = "visit_subsets"
    /\ call.at = "running"
    /\ call.stack = <<>>
    /\ call' = [call EXCEPT !.at = "returned"]
    /\ UNCHANGED engine_vars

NextSubsets ==
    \/ VisitSubsetsEnter
    \/ VisitSubsetsVisit
    \/ VisitSubsetsFirst
    \/ VisitSubsetsSecond
    \/ VisitSubsetsLeave
    \/ VisitSubsetsReturn

SpecSubsets == InitSubsets /\ [][NextSubsets]_vars

(***************************************************************************)
(* combi::is_rotation (combinatorial.h, in src/src/mwis.h) called on its   *)
(* own.                                                                    *)
(***************************************************************************)
RECURSIVE includes(_, _, _, _)
\* std::includes(first1, last1, first2, last2) of the standard library, as
\* line 127 calls it; i and j are the elements of a and of b gone past.  It
\* goes through both ranges once, as through two sorted ranges: it gives up
\* when the element of b is less than the element of a, goes past the
\* element of a otherwise, and past the element of b as well when the two are
\* equivalent.
includes(a, i, b, j) ==
    IF i < Len(a) /\ j < Len(b)
    THEN IF b[j + 1] < a[i + 1] THEN FALSE
         ELSE IF a[i + 1] < b[j + 1] THEN includes(a, i + 1, b, j)
         ELSE includes(a, i + 1, b, j + 1)
    ELSE j = Len(b)

\* is_rotation(first, second), lines 115-128.
is_rotation(first, second) ==
    IF Len(first) # Len(second) THEN FALSE
    ELSE IF first = <<>> THEN TRUE
    ELSE includes(first \o SubSeq(first, 1, Len(second)), 0, second, 0)

\* The two vectors are drawn.
InitRotation ==
    /\ EngineAtRest
    /\ \E v, w \in Vectors :
           call = [fn |-> "is_rotation", first |-> v, second |-> w,
                   result |-> "none"]

\* is_rotation(first, second) returns.
IsRotationCall ==
    /\ call.fn = "is_rotation"
    /\ call.result = "none"
    /\ call' = [call EXCEPT !.result = Answer(is_rotation(call.first, call.second))]
    /\ UNCHANGED engine_vars

NextRotation == IsRotationCall

SpecRotation == InitRotation /\ [][NextRotation]_vars

(***************************************************************************)
(* AlgorithmParams::AlgorithmParams(std::string params_file).  The file    *)
(* is what read_json makes of it: unreadable, or a tree in which each of   *)
(* the four paths "scores.<key>" is absent or leads to a text.  A text is  *)
(* a sequence of characters.  pt.get<float>(path) throws when the path is  *)
(* absent and when the text is not converted whole by the stream           *)
(* extraction of a float (boost::property_tree::stream_translator); each   *)
(* of the four is caught on its own.                                       *)
(***************************************************************************)
Keys == {"score_decay", "new_best_multiplier", "new_improving_multiplier",
         "new_accepted_multiplier"}

DigitChars == <<"0", "1", "2", "3", "4", "5", "6", "7", "8", "9">>

IsDigit(ch) == \E d \in 1..10 : DigitChars[d] = ch

DigitValue(ch) == (CHOOSE d \in 1..10 : DigitChars[d] = ch) - 1

\* The vertical tab (code 11), for which TLA+ has no escape: the character
\* itself stands between the quotes.
VerticalTab == ""

\* The characters std::isspace accepts in the "C" locale: the space, \t,
\* \n, \v, \f and \r.
SpaceChars == {" ", "\t", "\n", VerticalTab, "\f", "\r"}

RECURSIVE SkipSpaces(_, _)
\* The first position from i on that holds no white space (the skipping the
\* extraction begins with, and std::ws).
SkipSpaces(text, i) ==
    IF i <= Len(text) /\ text[i] \in SpaceChars
    THEN SkipSpaces(text, i + 1) ELSE i

RECURSIVE ScanDigits(_, _)
\* The first position from i on that holds no digit.
ScanDigits(text, i) ==
    IF i <= Len(text) /\ IsDigit(text[i]) THEN ScanDigits(text, i + 1) ELSE i

RECURSIVE DigitsValue(_, _, _)
\* The number written by the digits of text from position i to j - 1.
DigitsValue(text, i, j) ==
    IF i >= j THEN 0
    ELSE DigitsValue(text, i, j - 1) * 10 + DigitValue(text[j - 1])

\* Natural numbers of any size, as the conversion of a decimal text needs
\* them: the sequence of the bits, lowest first, the highest being 1 (zero is
\* the empty sequence).
RECURSIVE BigTrim(_)
BigTrim(a) ==
    IF a = <<>> \/ a[Len(a)] = 1 THEN a ELSE BigTrim(SubSeq(a, 1, Len(a) - 1))

RECURSIVE BigFromInt(_)
BigFromInt(n) == IF n = 0 THEN <<>> ELSE <<n % 2>> \o BigFromInt(n \div 2)

RECURSIVE BigAdd(_, _, _)
BigAdd(a, b, carry) ==
    IF a = <<>> /\ b = <<>> THEN (IF carry = 0 THEN <<>> ELSE <<1>>)
    ELSE LET x == IF a = <<>> THEN 0 ELSE Head(a)
             y == IF b = <<>> THEN 0 ELSE Head(b)
             s == x + y + carry
         IN <<s % 2>> \o BigAdd(IF a = <<>> THEN a ELSE Tail(a),
                                IF b = <<>> THEN b ELSE Tail(b), s \div 2)

\* a * 2^k.
BigShift(a, k) == IF a = <<>> THEN a ELSE [i \in 1..k |-> 0] \o a

BigTimes10(a) == BigAdd(BigShift(a, 1), BigShift(a, 3), 0)

RECURSIVE BigTimesPow10(_, _)
BigTimesPow10(a, k) == IF k = 0 THEN a ELSE BigTimesPow10(BigTimes10(a), k - 1)

RECURSIVE BigGeFrom(_, _, _)
BigGeFrom(a, b, i) ==
    IF i = 0 THEN TRUE
    ELSE IF a[i] # b[i] THEN a[i] > b[i]
    ELSE BigGeFrom(a, b, i - 1)

BigGe(a, b) ==
    IF Len(a) # Len(b) THEN Len(a) > Len(b) ELSE BigGeFrom(a, b, Len(a))

RECURSIVE BigSubBits(_, _, _)
BigSubBits(a, b, borrow) ==
    IF a = <<>> THEN <<>>
    ELSE LET y == IF b = <<>> THEN 0 ELSE Head(b)
             s == Head(a) - y - borrow
         IN <<s % 2>> \o BigSubBits(Tail(a), IF b = <<>> THEN b ELSE Tail(b),
                                    IF s < 0 THEN 1 ELSE 0)

\* a - b for a >= b.
BigSub(a, b) == BigTrim(BigSubBits(a, b, 0))

RECURSIVE BigDivFrom(_, _, _, _, _)
\* The long division of a by d from bit i of a down, with the quotient q and
\* the remainder r so far: the pair <<quotient, remainder>>.
BigDivFrom(a, d, i, q, r) ==
    IF i = 0 THEN <<BigTrim(q), r>>
    ELSE LET r2 == BigTrim(<<a[i]>> \o r) IN
         IF BigGe(r2, d) THEN BigDivFrom(a, d, i - 1, <<1>> \o q, BigSub(r2, d))
         ELSE BigDivFrom(a, d, i - 1, <<0>> \o q, r2)

BigDivMod(a, d) == BigDivFrom(a, d, Len(a), <<>>, <<>>)

RECURSIVE BigDigits(_, _, _, _)
\* acc followed by the decimal digits of text from position i to j - 1.
BigDigits(acc, text, i, j) ==
    IF i >= j THEN acc
    ELSE BigDigits(BigAdd(BigTimes10(acc), BigFromInt(DigitValue(text[i])), 0),
                   text, i + 1, j)

RECURSIVE BitsValue(_, _, _)
\* The number written by the bits i to j of a.
BitsValue(a, i, j) ==
    IF i > j THEN 0 ELSE a[i] + 2 * BitsValue(a, i + 1, j)

\* What strtof returns for sign * a * 2^e (a little more when sticky:
\* something below the lowest bit of a was discarded): the nearest float,
\* ties to the even significand, but for a bit the rounding of the C library
\* (glibc 2.36) discards.  Of a number in [2^-127, 2^-126), the highest
\* binade of the subnormal floats, written exactly with 25 significant bits,
\* the 25th (a quarter of the unit 2^-149) is taken for 0: such a number
\* ending in three quarters of a unit is then a tie, and goes to the even
\* significand below it where the nearest float is the odd one above.
F32FromBig(sign, a, e, sticky) ==
    IF a = <<>> THEN ZeroOf(sign)
    ELSE LET lowest   == CHOOSE i \in 1..Len(a) :
                             a[i] = 1 /\ \A j \in 1..(i - 1) : a[j] = 0
             discards == /\ ~sticky
                         /\ Len(a) + e = -126
                         /\ Len(a) - lowest + 1 = 25
             kept     == IF discards THEN [a EXCEPT ![lowest] = 0] ELSE a
             pad      == IF Len(kept) < 27 THEN 27 - Len(kept) ELSE 0
             b        == BigShift(kept, pad)
             dropped  == IF Len(b) > 28 THEN Len(b) - 28 ELSE 0
             top      == BitsValue(b, dropped + 1, Len(b))
             inexact  == sticky \/ \E i \in 1..dropped : b[i] = 1
         IN F32Norm(sign, 2 * top + (IF inexact THEN 1 ELSE 0),
                    e - pad + dropped - 1)

\* strtof: the float F32FromBig gives for sign * digits * 10^exp10, the
\* digits being a natural number of any size written with width decimal
\* digits.  A number of 10^39 or more is beyond the largest float, one below
\* 10^-46 is less than half the smallest.
DecimalToFloat(sign, digits, width, exp10) ==
    IF digits = <<>> THEN ZeroOf(sign)
    ELSE IF exp10 > 38 THEN Signed(sign, F32Inf)
    ELSE IF exp10 + width < -46 THEN ZeroOf(sign)
    ELSE IF exp10 >= 0
    THEN F32FromBig(sign, BigTimesPow10(digits, exp10), 0, FALSE)
    ELSE LET d    == BigTimesPow10(<<1>>, -exp10)
             need == 27 + Len(d) - Len(digits)
             s    == IF need > 0 THEN need ELSE 0
             qr   == BigDivMod(BigShift(digits, s), d)
         IN F32FromBig(sign, qr[1], -s, qr[2] # <<>>)

\* iss >> e for a float e, then std::ws, then the test that nothing is left
\* (stream_translator::get_value).  The extraction skips white space, takes
\* a sign, digits with at most one point among them and, after a digit, an
\* "e" or "E" with a sign and digits; what it took must be a number for
\* strtof as a whole (one digit at least before the exponent, one digit at
\* least in an exponent) and its value must not round to an infinity.
ParseFloat(text) ==
    LET start     == SkipSpaces(text, 1)
        has_sign  == start <= Len(text) /\ text[start] \in {"+", "-"}
        negative  == has_sign /\ text[start] = "-"
        int_from  == IF has_sign THEN start + 1 ELSE start
        int_end   == ScanDigits(text, int_from)
        has_point == int_end <= Len(text) /\ text[int_end] = "."
        frac_from == IF has_point THEN int_end + 1 ELSE int_end
        frac_end  == ScanDigits(text, frac_from)
        n_int     == int_end - int_from
        n_frac    == frac_end - frac_from
        has_exp   == /\ n_int + n_frac > 0
                     /\ frac_end <= Len(text)
                     /\ text[frac_end] \in {"e", "E"}
        exp_sign  == has_exp /\ frac_end + 1 <= Len(text)
                             /\ text[frac_end + 1] \in {"+", "-"}
        exp_neg   == exp_sign /\ text[frac_end + 1] = "-"
        exp_from  == IF exp_sign THEN frac_end + 2 ELSE frac_end + 1
        exp_end   == IF has_exp THEN ScanDigits(text, exp_from) ELSE frac_end
        exp_value == IF has_exp THEN DigitsValue(text, exp_from, exp_end) ELSE 0
        rest      == SkipSpaces(text, exp_end)
        digits    == BigDigits(BigDigits(<<>>, text, int_from, int_end),
                               text, frac_from, frac_end)
        value     == DecimalToFloat(IF negative THEN -1 ELSE 1, digits,
                                    n_int + n_frac,
                                    (IF exp_neg THEN -exp_value ELSE exp_value)
                                        - n_frac)
    IN IF \/ n_int + n_frac = 0
          \/ has_exp /\ exp_end = exp_from
          \/ rest <= Len(text)
          \/ IsInf(value)
       THEN [ok |-> FALSE, value |-> F32Zero]
       ELSE [ok |-> TRUE, value |-> value]

\* What the four catch blocks assign (lines 79, 85, 91, 97): 0.9f, 10.0f,
\* 4.0f, 1.5f.
FallbackParams ==
    [score_decay              |-> <<15099494, -24>>,
     new_best_multiplier      |-> <<10485760, -20>>,
     new_improving_multiplier |-> <<8388608, -21>>,
     new_accepted_multiplier  |-> <<12582912, -23>>]

\* pt.get<float>("scores.<key>") returns: the path is there and its text is
\* converted.
Gets(c, key) == key \in c.present /\ ParseFloat(c.texts[key]).ok

\* A key set to its default as soon as any of the four cannot be read.
LoadedKey_all_or_nothing(c, key) ==
    IF \A k \in Keys : Gets(c, k)
    THEN ParseFloat(c.texts[key]).value
    ELSE FallbackParams[key]

\* Lines 76-98, one try/catch: the value read, or the default of the key.
LoadedKey(c, key) ==
    IF Gets(c, key)
    THEN ParseFloat(c.texts[key]).value
    ELSE FallbackParams[key]

\* The texts of the model: well-formed ones (0.9, 10, .5, 4 between a tab and
\* a space, 1., -1, 1e2, 8388608.5) and malformed ones (empty, a word, a
\* number followed by something else, an exponent without digits).
ConfigTexts ==
    {<<"0", ".", "9">>, <<"1", "0">>, <<".", "5">>, <<"\t", "4", " ">>,
     <<"1", ".">>, <<"-", "1">>, <<"1", "e", "2">>,
     <<"8", "3", "8", "8", "6", "0", "8", ".", "5">>,
     <<>>, <<"x">>, <<"1", "x">>, <<"1", ".", "5", ".">>, <<"1", "e">>}

\* The file is drawn: unreadable, or with some of the keys and their texts
\* (an absent key has no text).
InitParams ==
    /\ EngineAtRest
    /\ \/ call = [fn |-> "AlgorithmParams", readable |-> FALSE, present |-> {},
                  texts |-> [k \in Keys |-> <<>>], outcome |-> "none",
                  loaded |-> [k \in Keys |-> F32Zero]]
       \/ \E present \in SUBSET Keys :
            \E texts \in [Keys -> ConfigTexts] :
               /\ \A k \in Keys \ present : texts[k] = <<>>
               /\ call = [fn |-> "AlgorithmParams", readable |-> TRUE,
                          present |-> present, texts |-> texts,
                          outcome |-> "none", loaded |-> [k \in Keys |-> F32Zero]]

\* The constructor returns, the four members set (lines 70-99).
AlgorithmParamsLoad ==
    /\ call.fn = "AlgorithmParams"
    /\ call.outcome = "none"
    /\ call.readable
    /\ call' = [call EXCEPT !.outcome = "loaded",
                            !.loaded = [k \in Keys |-> LoadedKey(call, k)]]
    /\ UNCHANGED engine_vars

\* read_json throws (line 74): there is no file, or it is no JSON.
AlgorithmParamsThrows ==
    /\ call.fn = "AlgorithmParams"
    /\ call.outcome = "none"
    /\ ~call.readable
    /\ call' = [call EXCEPT !.outcome = "thrown"]
    /\ UNCHANGED engine_vars

NextParams == AlgorithmParamsLoad \/ AlgorithmParamsThrows

SpecParams == InitParams /\ [][NextParams]_vars

\* solve() has returned, the visitor having answered false.
SolveReturned == pc = "idle" /\ visitor_result = "false"

\* C11 as claimed: in the scenario, when solve() has returned the iteration
\* number is stop_at and the best solution costs stop_at less than the initial
\* solution.
C11_BestLoweredByIterationNumber ==
    SolveReturned =>
        /\ iteration_number = stop_at
        /\ cost(best_solution) = cost(initial_solution) - stop_at

\* C11 as amended: in the scenario, when solve() has returned the iteration
\* number is stop_at and the best solution costs stop_at + 1 less than the
\* initial solution: the pass at the end of which the visitor stops has been
\* applied and accepted as well.
C11_BestLoweredByPasses ==
    SolveReturned =>
        /\ iteration_number = stop_at
        /\ cost(best_solution) = cost(initial_solution) - (stop_at + 1)

\* solve() has returned from a visitor that stopped at the last iteration
\* number of the model.
C11_Witness ==
    /\ SolveReturned
    /\ stop_at = MaxPasses - 1
    /\ iteration_number = stop_at
    /\ cost(best_solution) = 0

\* C12 as claimed: solve() with no destroy method or no repair method fails
\* fast: the one step it takes signals the error (the assertion aborts), no
\* index out of the range of a pool is used, no callback is invoked and the
\* new, current and best solutions are left as they were.
C12_EmptyPoolFailsFast ==
    [][(pc = "roulette" /\ (destroy_methods = <<>> \/ repair_methods = <<>>)) =>
           /\ pc' = "aborted"
           /\ ncalls' = ncalls
           /\ npasses' = npasses
           /\ new_solution' = new_solution
           /\ current_solution' = current_solution
           /\ best_solution' = best_solution]_vars

\* A step of reset_status.
ResetStep == resets' = resets + 1

\* C13 as claimed: reset_status(s) returns and, whatever passes and score
\* updates came before, leaves the iteration number 0, the elapsed time 0 and
\* the current and best solutions s.
C13_ResetClearsRun ==
    [][ResetStep =>
           /\ pc' \in {"idle", "thrown"}
           /\ iteration_number' = 0
           /\ elapsed_time_sec' = 0
           /\ current_solution' = call'.initial_solution
           /\ best_solution' = call'.initial_solution]_vars

\* C14 as claimed: reset_status returns and leaves every registered destroy
\* and repair method registered at its index, each with the score 1.0.
C14_ResetKeepsMethods ==
    [][ResetStep =>
           /\ pc' \in {"idle", "thrown"}
           /\ destroy_methods' = destroy_methods
           /\ repair_methods' = repair_methods
           /\ destroy_scores' = [i \in DOMAIN destroy_methods |-> F32One]
           /\ repair_scores' = [i \in DOMAIN repair_methods |-> F32One]]_vars

\* What the status retains from one call of solve() to the next.
Retained == <<best_solution, current_solution, destroy_methods,
              repair_methods, destroy_scores, repair_scores, iteration_number>>

\* solve() has been entered again and has not drawn its methods yet.
Resumed == pc = "roulette" /\ visitor_result = "none" /\ npasses >= 1

\* C15: the step by which solve() returns (its visitor having written
\* nothing through the status and registered nothing) and the step by which
\* it is entered change none of the best solution, the current solution, the
\* pools, the scores and the iteration number; a second call draws its first
\* methods from the solutions, scores and iteration number the first call
\* ended with, or the solutions the caller has assigned through get_status()
\* since (methods registered in between have their score 1.0 appended).
C15_ResumeFromRetainedState ==
    /\ [](Resumed =>
              /\ best_solution = pre.best_solution
              /\ current_solution = pre.current_solution
              /\ iteration_number = pre.iteration_number
              /\ SubSeq(destroy_scores, 1, Len(pre.destroy_scores)) = pre.destroy_scores
              /\ SubSeq(repair_scores, 1, Len(pre.repair_scores)) = pre.repair_scores)
    /\ [][/\ (pc = "visitor" /\ pc' = "idle" /\ edits' = edits /\ call' = call)
                 => UNCHANGED Retained
          /\ (Returned /\ pc' = "roulette") => UNCHANGED Retained]_vars

\* A second call of solve(), entered after a run that counted an iteration,
\* accepted a better solution and updated a score.
C15_Witness ==
    /\ Resumed
    /\ iteration_number >= 1
    /\ ever_accepted
    /\ cost(best_solution) < cost(initial_solution)
    /\ \E sc \in AllScores : sc # F32One

\* roulette_wheel has returned.
RouletteReturned == call.fn = "roulette_wheel" /\ call.index # -1

\* The running sum of the scan after the first i weights.
PrefixSum(weights, i) == Accumulate(SubSeq(weights, 1, i), F32Zero)

\* No index before the last one has a running sum that reaches the pivot.
NoEarlierIndex ==
    \A i \in 1..(Len(call.weights) - 1) :
        ~F32Ge(PrefixSum(call.weights, i), Pivot(call.weights, call.u))

\* C16: for every non-empty vector of non-negative weights (all zero and of
\* length 1 included) and every draw, roulette_wheel returns an index from 0
\* to len - 1, and it returns the last index when the scan selects no
\* earlier one.
C16_RouletteIndexInRange ==
    RouletteReturned =>
        /\ call.index \in 0..(Len(call.weights) - 1)
        /\ NoEarlierIndex => call.index = Len(call.weights) - 1

\* The scan of a vector of the largest length went through every index
\* before the last without selecting one.
C16_Witness ==
    /\ RouletteReturned
    /\ Len(call.weights) = MaxWeights
    /\ NoEarlierIndex
    /\ call.index = MaxWeights - 1

\* C18 as claimed: roulette_wheel never returns an index whose weight is 0
\* when some weight is positive, whatever the draw.
C18_NeverZeroWeight ==
    (RouletteReturned /\ \E i \in DOMAIN call.weights : call.weights[i] # F32Zero)
        => call.weights[call.index + 1] # F32Zero

\* LinearRecordToRecordTravel::operator() has returned.
AcceptanceReturned ==
    call.fn = "LinearRecordToRecordTravel" /\ call.accepted # "none"

\* How far the run is, and the limit, in the unit of the criterion.
Progress ==
    IF call.main_termination_criterion = "ITERATIONS"
    THEN call.iteration_number ELSE call.elapsed_time_sec

Limit ==
    IF call.main_termination_criterion = "ITERATIONS"
    THEN call.iterations_limit ELSE call.time_limit

\* C19 as claimed: the threshold is start_threshold when no iteration (no
\* time) has passed, end_threshold at the limit and between the two before
\* the limit, and a candidate of positive cost is accepted exactly when
\* (candidate cost - best cost) / candidate cost is at most the threshold.
C19_ThresholdDecaysLinearly ==
    AcceptanceReturned =>
        /\ Progress = 0 => call.threshold = call.start_threshold
        /\ Progress = Limit => call.threshold = call.end_threshold
        /\ (0 < Progress /\ Progress < Limit) =>
               /\ F32Le(F32Min(call.start_threshold, call.end_threshold), call.threshold)
               /\ F32Le(call.threshold, F32Max(call.start_threshold, call.end_threshold))
        /\ call.new_cost > 0 =>
               (call.accepted = "true") =
                   F32Le(F32Div(F32Sub(F32FromInt(call.new_cost), F32FromInt(call.best_cost)),
                                F32FromInt(call.new_cost)),
                         call.threshold)

\* C20: when a destroy method, a repair method or the acceptance criterion
\* throws, solve() is left with the current solution, the best solution, the
\* scores and the iteration number the pass began with, and without the
\* visitor having been invoked; only the new solution and the recorded
\* indices may differ.
C20_ErrorLeavesPassStart ==
    [][(pc \in {"destroy", "repair", "acceptance"} /\ pc' = "thrown") =>
           /\ current_solution' = pre'.current_solution
           /\ best_solution' = pre'.best_solution
           /\ destroy_scores' = pre'.destroy_scores
           /\ repair_scores' = pre'.repair_scores
           /\ iteration_number' = pre'.iteration_number
           /\ pre' = pre
           /\ ncalls'.update = 0
           /\ ncalls'.visitor = 0]_vars

\* The repair method has thrown in a pass that followed an accepted one,
\* leaving a new solution that is not the current one and another recorded
\* destroy index than the pass before.
C20_Witness ==
    /\ pc = "thrown"
    /\ ncalls.repair = 1
    /\ ncalls.acceptance = 0
    /\ ever_accepted
    /\ iteration_number >= 1
    /\ new_solution # current_solution
    /\ current_solution = pre.current_solution
    /\ \E sc \in AllScores : sc # F32One

\* The methods at the recorded indices.
SelectedMethods ==
    [destroy |-> destroy_methods[latest_destroy_id + 1],
     repair  |-> repair_methods[latest_repair_id + 1]]

\* C21: in every pass the new solution is first a copy of the current one,
\* then the destroy method at the recorded destroy index and then the repair
\* method at the recorded repair index are applied to it, once each; this
\* leaves the current and the best solution as the pass found them, and the
\* acceptance criterion is consulted only after both methods have run.
C21_DestroyThenRepairOnCopy ==
    /\ pc = "destroy" =>
           /\ new_solution = current_solution
           /\ ncalls = NoCalls
           /\ applied = NoMethods
    /\ pc = "repair" =>
           /\ ncalls = [NoCalls EXCEPT !.destroy = 1]
           /\ applied = [NoMethods EXCEPT
                          !.destroy = destroy_methods[latest_destroy_id + 1]]
    /\ pc = "acceptance" =>
           /\ ncalls = [NoCalls EXCEPT !.destroy = 1, !.repair = 1]
           /\ applied = SelectedMethods
    /\ pc = "visitor" =>
           /\ ncalls.destroy = 1 /\ ncalls.repair = 1 /\ ncalls.acceptance = 1
           /\ applied = SelectedMethods
    /\ pc \in {"destroy", "repair", "acceptance"} =>
           /\ current_solution = pre.current_solution
           /\ best_solution = pre.best_solution

\* In a pass that is not the first and that follows a rejected one, the second
\* destroy method and the repair method have changed the copy.
C21_Witness ==
    /\ pc = "acceptance"
    /\ npasses >= 2
    /\ latest_destroy_id = 1
    /\ applied = SelectedMethods
    /\ new_solution # current_solution
    /\ current_solution = initial_solution

\* The methods and the scores of each pool are as many.
SameLengths ==
    /\ Len(destroy_methods) = Len(destroy_scores)
    /\ Len(repair_methods) = Len(repair_scores)

\* A step that makes a vector of methods longer is a registration: it appends
\* one method, new to the pool, and the score 1.0f, which is the score at
\* the index of the method, returns the number of methods the pool had before
\* and leaves alone the methods and the scores registered before and the
\* other pool.
RegistrationStep ==
    /\ Len(destroy_methods') > Len(destroy_methods) =>
          /\ call'.fn = "add_destroy_method"
          /\ call'.index = Len(destroy_methods)
          /\ SubSeq(destroy_methods', 1, Len(destroy_methods)) = destroy_methods
          /\ destroy_scores' = Append(destroy_scores, F32One)
          /\ destroy_scores'[call'.index + 1] = F32One
          /\ Len(destroy_methods') = Len(destroy_methods) + 1
          /\ destroy_methods'[Len(destroy_methods')] \notin
                 {destroy_methods[i] : i \in DOMAIN destroy_methods}
          /\ UNCHANGED <<repair_methods, repair_scores>>
    /\ Len(repair_methods') > Len(repair_methods) =>
          /\ call'.fn = "add_repair_method"
          /\ call'.index = Len(repair_methods)
          /\ SubSeq(repair_methods', 1, Len(repair_methods)) = repair_methods
          /\ repair_scores' = Append(repair_scores, F32One)
          /\ repair_scores'[call'.index + 1] = F32One
          /\ Len(repair_methods') = Len(repair_methods) + 1
          /\ UNCHANGED <<destroy_methods, destroy_scores>>

\* C22 as claimed: the vectors of methods and of scores of a pool have the
\* same length in every state, and a registration appends the method with
\* the score 1.0f to its pool, returns the size the pool had before and
\* leaves alone the methods and scores registered before and the other pool.
C22_RegistrationAppends == []SameLengths /\ [][RegistrationStep]_vars

\* C28 as claimed: the cost of the best solution never rises from one step to
\* the next, within a call of solve() and from one call to the next, and the
\* best solution is only ever replaced by a new solution that costs strictly
\* less.
C28_BestCostNeverRises ==
    [][/\ cost(best_solution') <= cost(best_solution)
       /\ best_solution' # best_solution =>
              /\ best_solution' = new_solution
              /\ cost(new_solution) < cost(best_solution)]_vars

\* C28 as amended: no step that writes nothing through the editable
\* references of the status raises the cost of the best solution, within a
\* call of solve() and from one call to the next, and such a step only ever
\* replaces the best solution by a new solution that costs strictly less.
C28_BestCostNeverRisesUnlessWritten ==
    [][edits' = edits =>
           /\ cost(best_solution') <= cost(best_solution)
           /\ best_solution' # best_solution =>
                  /\ best_solution' = new_solution
                  /\ cost(new_solution) < cost(best_solution)]_vars

\* The first pass of a call of solve() that is not the first one has lowered
\* the cost of the best solution, which the caller had assigned through
\* get_status() before the call.
C28_Witness ==
    /\ pc = "visitor"
    /\ edits = 1
    /\ visitor_result = "none"
    /\ visited # <<>>
    /\ accepted = "true"
    /\ best_solution = new_solution
    /\ cost(best_solution) < cost(pre.best_solution)

\* C29 as claimed: the visitor is never invoked twice with the same iteration
\* number, from one call of solve() to the next as well: the number it is
\* invoked with is never the one it was invoked with last.
C29_VisitorSeesEachNumberOnce ==
    [][(pc = "visitor" /\ pc' # "visitor") => <<iteration_number>> # visited]_vars

\* C30 as claimed: with ITERATIONS as the criterion and start_threshold >=
\* end_threshold, the threshold of the next iteration number is never above
\* the threshold of this one, past iterations_limit as well.
C30_ThresholdNeverIncreases ==
    (/\ AcceptanceReturned
     /\ call.main_termination_criterion = "ITERATIONS"
     /\ F32Ge(call.start_threshold, call.end_threshold)) =>
        F32Le(Threshold([call EXCEPT !.iteration_number = @ + 1]), call.threshold)

\* How many elements of the vector s are v.
Count(v, s) == Cardinality({i \in DOMAIN s : s[i] = v})

\* C24: when swap_erase has returned, the vector holds each value the
\* condition does not hold of as many times as it did before, and no value
\* the condition holds of.
C24_SwapEraseKeepsTheOthers ==
    (call.fn = "swap_erase" /\ call.returned) =>
        \A v \in Values :
            Count(v, call.vec) = IF v \in call.condition THEN 0
                                 ELSE Count(v, call.original)

\* swap_erase has returned from a vector whose first and last elements
\* satisfied the condition and which held an element that did not.
C24_Witness ==
    /\ call.fn = "swap_erase" /\ call.returned
    /\ Len(call.original) = MaxLen
    /\ call.original[1] \in call.condition
    /\ call.original[MaxLen] \in call.condition
    /\ Len(call.vec) = 1

\* C25: when sample has returned, the result has min(how_many, n) elements
\* and holds no value more often than the container does (its elements come
\* from as many different positions of the container); with how_many >= n it
\* holds every value exactly as often as the container does, and it is empty
\* for an empty container.
C25_SampleTakesDistinctPositions ==
    (call.fn = "sample" /\ call.returned) =>
        LET n == Len(call.container)
        IN /\ Len(call.result) = IF call.how_many < n THEN call.how_many ELSE n
           /\ \A v \in Values : Count(v, call.result) <= Count(v, call.container)
           /\ call.how_many >= n =>
                  \A v \in Values : Count(v, call.result) = Count(v, call.container)
           /\ n = 0 => call.result = <<>>

\* sample has returned fewer elements than the container holds, the
\* container holding different values and the draws having reached an
\* element other than the first one.
C25_Witness ==
    /\ call.fn = "sample" /\ call.returned
    /\ Len(call.container) = MaxLen
    /\ call.how_many = MaxLen - 1
    /\ \A i, j \in DOMAIN call.container : i # j => call.container[i] # call.container[j]
    /\ call.draws[1] = MaxLen - 1
    /\ call.result[1] = call.container[MaxLen]
    /\ Len(call.result) = MaxLen - 1

RECURSIVE Encoded(_)
\* The number an indicator vector encodes, its first element (index 0 in the
\* code) being the least significant bit.
Encoded(indicator) ==
    IF indicator = <<>> THEN 0
    ELSE (IF Head(indicator) THEN 1 ELSE 0) + 2 * Encoded(Tail(indicator))

\* C26: the k-th invocation of the visitor (k from 0) is on a vector of size
\* elements that encodes k when start_from_smaller is true and 2^size - 1 - k
\* when it is false, and when visit_subsets has returned the visitor has been
\* invoked 2^size times, on vectors that all differ.
C26_SubsetsInOrder ==
    call.fn = "visit_subsets" =>
        /\ \A k \in 0..(Len(call.visited) - 1) :
               /\ Len(call.visited[k + 1]) = call.size
               /\ Encoded(call.visited[k + 1]) =
                      IF call.start_from_smaller THEN k
                      ELSE Pow2(call.size) - 1 - k
        /\ call.at = "returned" =>
               /\ Len(call.visited) = Pow2(call.size)
               /\ \A j, k \in DOMAIN call.visited :
                      j # k => call.visited[j] # call.visited[k]

\* visit_subsets has returned from the subsets of a set of MaxSize elements,
\* visited from the larger to the smaller.
C26_Witness ==
    /\ call.fn = "visit_subsets"
    /\ call.at = "returned"
    /\ call.size = MaxSize
    /\ ~call.start_from_smaller
    /\ Len(call.visited) = Pow2(MaxSize)
    /\ call.visited[2] = [i \in 1..MaxSize |-> i # 1]

\* The vector w is the vector v rotated by some number of places.
Rotation(v, w) ==
    /\ Len(v) = Len(w)
    /\ \/ v = <<>>
       \/ \E k \in 0..(Len(v) - 1) :
              \A i \in 1..Len(v) : w[i] = v[((i - 1 + k) % Len(v)) + 1]

\* C27 as claimed: is_rotation returns true exactly when the two vectors have
\* the same size and the second one is the first one rotated: a contiguous
\* block of the first one concatenated with itself.
C27_TrueIffRotation ==
    (call.fn = "is_rotation" /\ call.result # "none") =>
        (call.result = "true") = Rotation(call.first, call.second)

\* The well-formed texts of the model and the floats they write: 0.9f, 10.0f,
\* 0.5f, 4.0f, 1.0f, -1.0f, 100.0f, 8388608.0f (8388608.5 lies halfway
\* between two floats).
Configured(text) ==
    CASE text = <<"0", ".", "9">>   -> <<15099494, -24>>
      [] text = <<"1", "0">>        -> <<10485760, -20>>
      [] text = <<".", "5">>        -> <<8388608, -24>>
      [] text = <<"\t", "4", " ">>  -> <<8388608, -21>>
      [] text = <<"1", ".">>        -> <<8388608, -23>>
      [] text = <<"-", "1">>        -> <<-8388608, -23>>
      [] text = <<"1", "e", "2">>   -> <<13107200, -17>>
      [] text = <<"8", "3", "8", "8", "6", "0", "8", ".", "5">> -> <<8388608, 0>>

WellFormed ==
    {<<"0", ".", "9">>, <<"1", "0">>, <<".", "5">>, <<"\t", "4", " ">>,
     <<"1", ".">>, <<"-", "1">>, <<"1", "e", "2">>,
     <<"8", "3", "8", "8", "6", "0", "8", ".", "5">>}

\* The documented defaults: 0.9, 10.0, 4.0, 1.5.
Defaults ==
    [score_decay              |-> <<15099494, -24>>,
     new_best_multiplier      |-> <<10485760, -20>>,
     new_improving_multiplier |-> <<8388608, -21>>,
     new_accepted_multiplier  |-> <<12582912, -23>>]

\* C23: loading the parameters from a file that can be read never fails, and
\* each of the four keys has its configured value when it is there and
\* well-formed and its own default otherwise, whatever the other keys are.
C23_KeysFallBackOneByOne ==
    (call.fn = "AlgorithmParams" /\ call.outcome # "none") =>
        /\ call.readable => call.outcome = "loaded"
        /\ call.outcome = "loaded" =>
               \A k \in Keys :
                   call.loaded[k] =
                       IF k \in call.present /\ call.texts[k] \in WellFormed
                       THEN Configured(call.texts[k])
                       ELSE Defaults[k]

\* The parameters have been loaded from a file with a key missing, a
\* malformed key and two well-formed ones.
C23_Witness ==
    /\ call.fn = "AlgorithmParams"
    /\ call.outcome = "loaded"
    /\ "score_decay" \notin call.present
    /\ "new_best_multiplier" \in call.present
    /\ call.texts["new_best_multiplier"] = <<"1", "x">>
    /\ "new_improving_multiplier" \in call.present
    /\ call.texts["new_improving_multiplier"] = <<".", "5">>
    /\ "new_accepted_multiplier" \in call.present
    /\ call.texts["new_accepted_multiplier"] = <<"\t", "4", " ">>
    /\ call.loaded = [score_decay              |-> <<15099494, -24>>,
                      new_best_multiplier      |-> <<10485760, -20>>,
                      new_improving_multiplier |-> <<8388608, -24>>,
                      new_accepted_multiplier  |-> <<8388608, -21>>]

====
